---- MODULE Spec2Model ----
(***************************************************************************)
(* Firebolt MERGE demo: the test orchestrator (runPerformanceTest) of the  *)
(* two demo components, CustomerAnalytics and AdPerformanceDemo, the query *)
(* executor they call, the comparison calculator, and the part of the      *)
(* external database the statements act on.                                *)
(*                                                                         *)
(* An async handler is a coroutine.  A handler runs without interruption   *)
(* from the event that resumes it (a click, a response) up to its next     *)
(* await, so one action is: the response to a request arrives, the         *)
(* awaiting handler runs on to its next await and issues the next request. *)
(* React state set inside a handler is taken to be visible to the next     *)
(* event (React flushes updates of discrete events before the next one).   *)
(*                                                                         *)
(* Numbers: executionTime is kept in milliseconds (the source divides by   *)
(* 1000; every use is a ratio of two times).  A percentage is kept in      *)
(* hundredths, which is exactly what Math.round(x * 100) / 100 can hold.   *)
(* Arithmetic is exact; IEEE rounding of the quotient is not modelled.     *)
(* Timestamps of log lines and results are left out.  The chart-only state *)
(* (performanceMetrics, showSQLComparison) is left out.                    *)
(***************************************************************************)
EXTENDS Integers, Sequences, FiniteSets, Bags, TLC

(***************************************************************************)
(* Bounds of the model.                                                    *)
(***************************************************************************)
MaxRuns == 2          \* test sequences started in one behaviour
MaxFailures == 1      \* requests that fail in one behaviour
NumScales == 2        \* data scales the operator chooses from
ReportedStat == 1     \* rows_read and bytes_read of every response, and
ElapsedMs == 1        \*   Date.now() - startTime, where they are not varied
MinCustomerId == 49   \* the database is tracked for customer_id in
MaxCustomerId == 50   \*   MinCustomerId..MaxCustomerId
MinClickId == 19      \* and for click_<n> with n in MinClickId..MaxClickId
MaxClickId == 20
MaxNewClick == 1      \* and for new_click_<k> with k in 1..MaxNewClick
MaxElapsed == 1       \* largest Date.now() - startTime of a test, where varied
MaxCalc == 3          \* largest time / rows / bytes given to the calculator
MaxStat == 1          \* largest rows_read / bytes_read where they are varied
MaxResultRows == 2    \* rows of an engine result in one exchange
MaxLogEdits == 1      \* clicks on the buttons of the log panel in one behaviour
NumLoads == 1         \* buttons of Load Additional Sample Data the operator uses
MaxTests == 2         \* connection tests started on the setup page
NumRequests == 3      \* requests the proxy process receives
MaxRefused == 1       \* connects to Firebolt that may fail
MaxAnswers == 4       \* answers followed when a test and an operation interleave
MaxLoads == 1         \* additional loads on the table before the test data is set up

(***************************************************************************)
(* Program constants.                                                      *)
(***************************************************************************)
totalCustomers == 10000
estimatedBytesPerRow == 256
batchSize == 1000
baseRows == 10000

CA == "CustomerAnalytics"
AD == "AdPerformanceDemo"
Components == {CA, AD}

null == [kind |-> "null"]

Min(a, b) == IF a < b THEN a ELSE b

\* A statistic the response does not carry (undefined), and x || 0.
absent == 0 - 1
OrZero(x) == IF x = absent THEN 0 ELSE x

(***************************************************************************)
(* JavaScript numbers as far as the calculator needs them: a finite value  *)
(* in hundredths, or NaN, Infinity, -Infinity.                             *)
(***************************************************************************)
Finite(h) == [kind |-> "finite", hundredths |-> h]
NaN == [kind |-> "NaN", hundredths |-> 0]
PosInfinity == [kind |-> "Infinity", hundredths |-> 0]
NegInfinity == [kind |-> "-Infinity", hundredths |-> 0]

\* Math.round(n / d) for d > 0: the nearest integer, a tie going up.
MathRound_Floor(n, d) == n \div d
MathRound(n, d) == (2 * n + d) \div (2 * d)

\* Math.round(((num / den) * 100) * 100) / 100, with JavaScript's division
\* by zero: 0/0 is NaN, x/0 is Infinity with the sign of x, and Math.round
\* leaves NaN and the infinities as they are.
RoundedPercent(num, den) ==
    IF den = 0
    THEN IF num = 0 THEN NaN
         ELSE IF num > 0 THEN PosInfinity ELSE NegInfinity
    ELSE Finite(MathRound(num * 10000, den))

\* Math.round((a / b) * 100) / 100 for the operation counts (b is 1).
RoundedRatio_Percent(a, b) ==
    IF b = 0
    THEN IF a = 0 THEN NaN ELSE PosInfinity
    ELSE Finite(MathRound(a * 10000, b))
RoundedRatio(a, b) ==
    IF b = 0
    THEN IF a = 0 THEN NaN ELSE PosInfinity
    ELSE Finite(MathRound(a * 100, b))

(***************************************************************************)
(* calculateComparison, CustomerAnalytics: no guard on the denominators.   *)
(***************************************************************************)
calculateComparison_CA(mergeResult, traditionalResult) ==
    [timeImprovement |->
        RoundedPercent(traditionalResult.executionTime - mergeResult.executionTime,
                       traditionalResult.executionTime),
     efficiencyGain |->
        RoundedPercent(traditionalResult.rowsProcessed - mergeResult.rowsProcessed,
                       traditionalResult.rowsProcessed),
     ioReduction |->
        RoundedPercent(traditionalResult.bytesScanned - mergeResult.bytesScanned,
                       traditionalResult.bytesScanned),
     simplificationFactor |->
        RoundedRatio(traditionalResult.operationCount, mergeResult.operationCount)]

(***************************************************************************)
(* calculateComparison, AdPerformanceDemo: rows and bytes are guarded.     *)
(***************************************************************************)
calculateComparison_AD_Clamped(mergeResult, traditionalResult) ==
    LET clamp(x) == IF x.kind = "finite" /\ x.hundredths < 0 THEN Finite(0) ELSE x
    IN [timeImprovement |->
           clamp(RoundedPercent(traditionalResult.executionTime - mergeResult.executionTime,
                                traditionalResult.executionTime)),
        efficiencyGain |->
           IF traditionalResult.rowsProcessed > 0
           THEN clamp(RoundedPercent(traditionalResult.rowsProcessed - mergeResult.rowsProcessed,
                                     traditionalResult.rowsProcessed))
           ELSE Finite(0),
        ioReduction |->
           IF traditionalResult.bytesScanned > 0
           THEN clamp(RoundedPercent(traditionalResult.bytesScanned - mergeResult.bytesScanned,
                                     traditionalResult.bytesScanned))
           ELSE Finite(0),
        simplificationFactor |->
           RoundedRatio(traditionalResult.operationCount, mergeResult.operationCount)]

calculateComparison_AD(mergeResult, traditionalResult) ==
    [timeImprovement |->
        RoundedPercent(traditionalResult.executionTime - mergeResult.executionTime,
                       traditionalResult.executionTime),
     efficiencyGain |->
        IF traditionalResult.rowsProcessed > 0
        THEN RoundedPercent(traditionalResult.rowsProcessed - mergeResult.rowsProcessed,
                            traditionalResult.rowsProcessed)
        ELSE Finite(0),
     ioReduction |->
        IF traditionalResult.bytesScanned > 0
        THEN RoundedPercent(traditionalResult.bytesScanned - mergeResult.bytesScanned,
                            traditionalResult.bytesScanned)
        ELSE Finite(0),
     simplificationFactor |->
        RoundedRatio(traditionalResult.operationCount, mergeResult.operationCount)]

calculateComparison(c, mergeResult, traditionalResult) ==
    IF c = CA THEN calculateComparison_CA(mergeResult, traditionalResult)
    ELSE calculateComparison_AD(mergeResult, traditionalResult)

(***************************************************************************)
(* The external database.  A table is a bag of rows.  Only the rows whose  *)
(* key lies in the tracked window are kept: every statement of the demo    *)
(* selects, joins and updates by key, so the tracked rows change exactly   *)
(* as they do in the full table.  A LIMIT without ORDER BY lets the engine *)
(* return any rows that qualify; the rows it takes are an input (pick).    *)
(* Columns that no statement tests (names, dates, random amounts) are left *)
(* out.                                                                    *)
(***************************************************************************)
CustomerIds == MinCustomerId..MaxCustomerId
ClickIds == MinClickId..MaxClickId
NewClickIds == 1..MaxNewClick

Rows(B) == BagToSet(B)
FilterBag(B, P(_)) == [r \in {x \in BagToSet(B) : P(x)} |-> B[r]]

\* A statement: its text, the batch it loads (n) and the customer ids its
\* VALUES list holds (first..last), where it has them.
Stmt(sql) == [sql |-> sql, n |-> 0, first |-> 0, last |-> 0]
BatchStmt(b) == [Stmt("INSERT INTO ad_performance") EXCEPT !.n = b]

getMultiplier_CA(scale) ==
    CASE scale = "1x" -> 1 [] scale = "3x" -> 3 [] scale = "5x" -> 5
      [] scale = "10x" -> 10 [] scale = "25x" -> 25 [] scale = "50x" -> 50
      [] OTHER -> 1

getMultiplier_AD(scale) ==
    CASE scale = "1x" -> 1 [] scale = "5x" -> 5
      [] scale = "10x" -> 10 [] scale = "25x" -> 25 [] scale = "50x" -> 50
      [] OTHER -> 1

\* setupTestData: changesRows = Math.floor(1000 * multiplier * 0.3)
changesRows(scale) == (1000 * getMultiplier_CA(scale) * 3) \div 10
\* setupAttributionTestData: updateCount and newClicksCount
updateCount(scale) == 1000 * getMultiplier_AD(scale)
newClicksCount(scale) == updateCount(scale) \div 2
\* setupFraudTestData: fraudCount
fraudCount(scale) == 500 * getMultiplier_AD(scale)

\* A row's key column (customer_id, click_id) is the field key.
\* The row loadInitialSampleData / loadAdditionalData generate for custId.
ProfileRow(custId) ==
    LET spend == (custId % 500) + 10
    IN [key |-> custId,
        email |-> "customer",
        subscription_tier |-> IF custId % 20 = 0 THEN "enterprise"
                              ELSE IF custId % 10 = 0 THEN "premium" ELSE "basic",
        monthly_spend |-> spend,
        status |-> "active",
        customer_segment |-> IF custId % 20 = 0 THEN "high_value"
                             ELSE IF spend >= 100 THEN "medium_value" ELSE "standard"]

\* The row of customer_changes that setupTestData derives from a profile.
ChangeRow(p) ==
    [key |-> p.key,
     email |-> "updated",
     subscription_tier |-> IF p.key % 10 = 0 THEN "enterprise"
                           ELSE IF p.key % 5 = 0 THEN "premium"
                           ELSE p.subscription_tier,
     monthly_spend |-> p.monthly_spend + 25,
     status |-> IF p.key % 50 = 0 THEN "deleted" ELSE "active"]

\* CASE ... END of the MERGE and of the traditional INSERT.
SegmentOf(s) ==
    IF s.subscription_tier = "enterprise" THEN "high_value"
    ELSE IF s.monthly_spend >= 25 THEN "medium_value" ELSE "standard"

InsertedProfile(s) ==
    [key |-> s.key, email |-> s.email,
     subscription_tier |-> s.subscription_tier, monthly_spend |-> s.monthly_spend,
     status |-> s.status, customer_segment |-> SegmentOf(s)]

\* INSERT INTO customer_changes ... SELECT DISTINCT ... WHERE customer_id <= changesRows
SeedChanges(profiles, scale) ==
    SetToBag({ChangeRow(p) : p \in {q \in Rows(profiles) : q.key <= changesRows(scale)}})

\* UPDATE target SET ... FROM (SELECT DISTINCT ... WHERE Sel) AS source
\* WHERE target.key = source.key
UpdateFrom(target, source, Sel(_), Set(_, _)) ==
    LET src(t) == {s \in Rows(source) : s.key = t.key /\ Sel(s)}
        upd(t) == IF src(t) = {} THEN t ELSE Set(t, CHOOSE s \in src(t) : TRUE)
    IN BagOfAll(upd, target)

\* Rows of source that have no row of target with the same key.
Unmatched(target, source) ==
    FilterBag(source, LAMBDA s : \A t \in Rows(target) : t.key # s.key)

MergeCustomers(profiles, changes) ==
    LET del(t) == \E s \in Rows(changes) :
                      s.key = t.key /\ s.status = "deleted"
        kept == FilterBag(profiles, LAMBDA t : ~del(t))
        set(t, s) == [t EXCEPT !.email = s.email,
                               !.subscription_tier = s.subscription_tier,
                               !.monthly_spend = s.monthly_spend,
                               !.customer_segment = SegmentOf(s)]
    IN UpdateFrom(kept, changes, LAMBDA s : TRUE, set)
         (+) BagOfAll(InsertedProfile, Unmatched(profiles, changes))

DeleteMarked(profiles, changes) ==
    FilterBag(profiles, LAMBDA t : ~\E s \in Rows(changes) :
                  s.key = t.key /\ s.status = "deleted")

UpdateEnterprise(profiles, changes) ==
    UpdateFrom(profiles, changes,
               LAMBDA s : s.subscription_tier = "enterprise",
               LAMBDA t, s : [t EXCEPT !.subscription_tier = s.subscription_tier,
                                       !.monthly_spend = s.monthly_spend,
                                       !.customer_segment = "high_value"])

UpdateMediumValue(profiles, changes) ==
    UpdateFrom(profiles, changes,
               LAMBDA s : s.monthly_spend >= 25 /\ s.subscription_tier # "enterprise",
               LAMBDA t, s : [t EXCEPT !.subscription_tier = s.subscription_tier,
                                       !.monthly_spend = s.monthly_spend,
                                       !.customer_segment = "medium_value"])

UpdateRemaining(profiles, changes) ==
    UpdateFrom(profiles, changes,
               LAMBDA s : /\ s.status # "deleted"
                          /\ s.subscription_tier # "enterprise"
                          /\ ~(s.monthly_spend >= 25),
               LAMBDA t, s : [t EXCEPT !.email = s.email,
                                       !.subscription_tier = s.subscription_tier,
                                       !.monthly_spend = s.monthly_spend,
                                       !.status = s.status])

InsertNewCustomers(profiles, changes) ==
    profiles (+) BagOfAll(InsertedProfile, Unmatched(profiles, changes))

\* AdPerformanceDemo.  click_<n> is the number n, new_click_<k> is -k;
\* conv says that conversion_value is not NULL.
AdRow(n) == [key |-> n, conv |-> (n % 20 = 0)]
Attributed(r) == [r EXCEPT !.conv = TRUE]

\* One batch of loadInitialData: click_(startId + 1) .. click_(startId + batchSize)
\* with startId = batch * batchSize + 1.
LoadBatch(batch) ==
    LET startId == batch * batchSize + 1
    IN SetToBag({AdRow(n) : n \in {m \in ClickIds : m >= startId + 1 /\ m <= startId + batchSize}})

NewClicks(scale) ==
    SetToBag({[key |-> 0 - k, conv |-> TRUE] :
                 k \in {j \in NewClickIds : j <= newClicksCount(scale)}})

MergeAttribution(perf, updates) ==
    UpdateFrom(perf, updates, LAMBDA s : s.conv, LAMBDA t, s : Attributed(t))
      (+) Unmatched(perf, updates)

DeleteFraud(perf, fraud) ==
    FilterBag(perf, LAMBDA t : \A s \in Rows(fraud) : s.key # t.key)

\* The rows a statement with LIMIT may take.
Limited(B, limit) == {b \in SubBag(B) : BagCardinality(b) <= limit}

Picks(stmt, d, scale) ==
    CASE stmt.sql = "INSERT INTO attribution_updates (existing clicks)" ->
           Limited(FilterBag(d.ad_performance, LAMBDA r : ~r.conv),
                   updateCount(scale) - newClicksCount(scale))
      [] stmt.sql = "INSERT INTO detected_fraud" ->
           Limited(FilterBag(d.ad_performance,
                             LAMBDA r : r.key > 0 /\ r.key % 20 = 0),
                   fraudCount(scale))
      [] OTHER -> {EmptyBag}

\* The tables of the two demos.  The database records which of them exist.
Tables ==
    {"customer_profiles", "customer_changes",
     "ad_performance", "attribution_updates", "detected_fraud"}

DropTable(table) == Stmt("DROP TABLE IF EXISTS " \o table)
CreateTable(table) == Stmt("CREATE FACT TABLE " \o table)

\* INSERT INTO customer_profiles (...) VALUES (first, ...), ..., (last, ...)
InsertValues(first, last) ==
    [Stmt("INSERT INTO customer_profiles VALUES") EXCEPT !.first = first, !.last = last]

\* The rows with the ids first..last: those in the tracked window as rows,
\* the others as the intervals of ids they fill.
Max(a, b) == IF a >= b THEN a ELSE b
TrackedRows(first, last) ==
    SetToBag({ProfileRow(i) : i \in {j \in CustomerIds : first <= j /\ j <= last}})
OtherRows(first, last) ==
    SetToBag({r \in {[lo |-> first, hi |-> Min(last, MinCustomerId - 1)],
                     [lo |-> Max(first, MaxCustomerId + 1), hi |-> last]} :
                 r.lo <= r.hi})

\* The tables a statement names.
TablesOf(stmt) ==
    CASE \E t \in Tables : stmt = DropTable(t) -> {}
      [] \E t \in Tables : stmt = CreateTable(t) -> {}
      [] stmt.sql \in {"/api/status", "/api/health"} -> {}
      [] stmt.sql \in {"SELECT COUNT(*) FROM customer_changes",
                       "DELETE FROM customer_changes"} -> {"customer_changes"}
      [] stmt.sql \in {"SELECT COUNT(*) FROM customer_profiles",
                       "SELECT 1 FROM customer_profiles",
                       "SELECT MAX(customer_id) FROM customer_profiles",
                       "SELECT COUNT(*) total_customers FROM customer_profiles",
                       "INSERT INTO customer_profiles VALUES"} -> {"customer_profiles"}
      [] stmt.sql \in {"INSERT INTO customer_changes", "MERGE INTO customer_profiles",
                       "DELETE FROM customer_profiles",
                       "UPDATE customer_profiles (enterprise)",
                       "UPDATE customer_profiles (medium value)",
                       "UPDATE customer_profiles (remaining)",
                       "INSERT INTO customer_profiles"} ->
           {"customer_profiles", "customer_changes"}
      [] stmt.sql = "INSERT INTO ad_performance" -> {"ad_performance"}
      [] stmt.sql = "DELETE FROM attribution_updates" -> {"attribution_updates"}
      [] stmt.sql = "INSERT INTO attribution_updates (new clicks)" ->
           {"attribution_updates"}
      [] stmt.sql = "DELETE FROM detected_fraud" -> {"detected_fraud"}
      [] stmt.sql \in {"INSERT INTO detected_fraud", "MERGE INTO ad_performance (fraud)",
                       "SELECT fraudulent clicks", "DELETE FROM ad_performance"} ->
           {"ad_performance", "detected_fraud"}
      [] OTHER -> {"ad_performance", "attribution_updates"}

\* The engine runs a statement when the tables it names exist, and
\* CREATE FACT TABLE (no IF NOT EXISTS) when the table does not.
Executable(stmt, d) ==
    /\ TablesOf(stmt) \subseteq d.exists
    /\ \A t \in Tables : stmt = CreateTable(t) => t \notin d.exists

\* What a statement that succeeded did to the database.
Effect(stmt, d, scale, pick) ==
    CASE \E t \in Tables : stmt = DropTable(t) ->
           LET t == CHOOSE u \in Tables : stmt = DropTable(u)
           IN [d EXCEPT ![t] = EmptyBag,
                        !.exists = @ \ {t},
                        !.others = IF t = "customer_profiles" THEN EmptyBag ELSE @]
      [] \E t \in Tables : stmt = CreateTable(t) ->
           [d EXCEPT !.exists = @ \cup {CHOOSE u \in Tables : stmt = CreateTable(u)}]
      [] stmt.sql = "INSERT INTO customer_profiles VALUES" ->
           [d EXCEPT !.customer_profiles = @ (+) TrackedRows(stmt.first, stmt.last),
                     !.others = @ (+) OtherRows(stmt.first, stmt.last)]
      [] stmt.sql = "DELETE FROM customer_changes" ->
           [d EXCEPT !.customer_changes = EmptyBag]
      [] stmt.sql = "INSERT INTO customer_changes" ->
           [d EXCEPT !.customer_changes = @ (+) SeedChanges(d.customer_profiles, scale)]
      [] stmt.sql = "MERGE INTO customer_profiles" ->
           [d EXCEPT !.customer_profiles = MergeCustomers(@, d.customer_changes)]
      [] stmt.sql = "DELETE FROM customer_profiles" ->
           [d EXCEPT !.customer_profiles = DeleteMarked(@, d.customer_changes)]
      [] stmt.sql = "UPDATE customer_profiles (enterprise)" ->
           [d EXCEPT !.customer_profiles = UpdateEnterprise(@, d.customer_changes)]
      [] stmt.sql = "UPDATE customer_profiles (medium value)" ->
           [d EXCEPT !.customer_profiles = UpdateMediumValue(@, d.customer_changes)]
      [] stmt.sql = "UPDATE customer_profiles (remaining)" ->
           [d EXCEPT !.customer_profiles = UpdateRemaining(@, d.customer_changes)]
      [] stmt.sql = "INSERT INTO customer_profiles" ->
           [d EXCEPT !.customer_profiles = InsertNewCustomers(@, d.customer_changes)]
      [] stmt.sql = "DELETE FROM attribution_updates" ->
           [d EXCEPT !.attribution_updates = EmptyBag]
      [] stmt.sql = "INSERT INTO attribution_updates (existing clicks)" ->
           [d EXCEPT !.attribution_updates = @ (+) BagOfAll(Attributed, pick)]
      [] stmt.sql = "INSERT INTO attribution_updates (new clicks)" ->
           [d EXCEPT !.attribution_updates = @ (+) NewClicks(scale)]
      [] stmt.sql = "MERGE INTO ad_performance (attribution)" ->
           [d EXCEPT !.ad_performance = MergeAttribution(@, d.attribution_updates)]
      [] stmt.sql = "UPDATE ad_performance" ->
           [d EXCEPT !.ad_performance =
               UpdateFrom(@, d.attribution_updates, LAMBDA s : s.conv,
                          LAMBDA t, s : Attributed(t))]
      [] stmt.sql = "INSERT INTO ad_performance (new clicks)" ->
           [d EXCEPT !.ad_performance = @ (+) Unmatched(@, d.attribution_updates)]
      [] stmt.sql = "DELETE FROM detected_fraud" ->
           [d EXCEPT !.detected_fraud = EmptyBag]
      [] stmt.sql = "INSERT INTO detected_fraud" ->
           [d EXCEPT !.detected_fraud =
               @ (+) BagOfAll(LAMBDA r : [key |-> r.key], pick)]
      [] stmt.sql = "MERGE INTO ad_performance (fraud)" ->
           [d EXCEPT !.ad_performance = DeleteFraud(@, d.detected_fraud)]
      [] stmt.sql = "DELETE FROM ad_performance" ->
           [d EXCEPT !.ad_performance = DeleteFraud(@, d.detected_fraud)]
      [] stmt.sql = "INSERT INTO ad_performance" ->
           [d EXCEPT !.ad_performance = @ (+) LoadBatch(stmt.n)]
      [] OTHER -> d

InitialDatabase ==
    [customer_profiles |-> SetToBag({ProfileRow(i) : i \in CustomerIds}),
     customer_changes |-> EmptyBag,
     ad_performance |-> SetToBag({AdRow(n) : n \in ClickIds}),
     attribution_updates |-> EmptyBag,
     detected_fraud |-> EmptyBag,
     exists |-> Tables,
     others |-> EmptyBag,
     compact |-> FALSE]

(***************************************************************************)
(* The handlers as programs: a handler is the sequence of its steps, a     *)
(* call is the callee's steps in place.  An await step names the label     *)
(* of the catch block that handles its failure ("swallow": a catch block   *)
(* around this call alone, after which the handler goes on), and the part  *)
(* of the response the handler reads (in).                                 *)
(***************************************************************************)
Step(op, a) == [op |-> op, a |-> a, catch |-> "", in |-> ""]
AddLog(text) == Step("addLog", text)
AddLogError(text) == Step("addLogError", text)
Set(field, value) == Step("set", <<field, value>>)
Label(l) == Step("label", l)
Goto(l) == Step("goto", l)
Await(sql, catch, in) == [op |-> "await", a |-> Stmt(sql), catch |-> catch, in |-> in]
Fetch(url) == [op |-> "fetch", a |-> Stmt(url), catch |-> "swallow", in |-> "count"]
AwaitStmt(stmt, catch) == [op |-> "await", a |-> stmt, catch |-> catch, in |-> ""]

\* runPerformanceTest, after the guard: the state it resets before the try.
TestPrelude_KeepsResults ==
    << Set("isRunning", TRUE), Set("logs", << >>) >>
TestPrelude ==
    << Set("isRunning", TRUE), Set("logs", << >>),
       Set("testResults", << >>), Set("comparison", null) >>

\* catch (error) { addLog(`Test failed: ...`); setCurrentTest('') }
TestCatch_Silent ==
    << Label("catch"), Set("currentTest", "") >>
TestCatch ==
    << Label("catch"), AddLogError("Test failed"), Set("currentTest", "") >>

\* finally { setIsRunning(false) }
TestFinally_Missing ==
    << Label("finally"), Step("end", "") >>
TestFinally ==
    << Label("finally"), Set("isRunning", FALSE), Step("end", "") >>

checkDatabaseStatus_CA ==
    << Await("SELECT COUNT(*) FROM customer_profiles", "swallow", "count"),
       Step("profilesCount", ""),
       Await("SELECT COUNT(*) FROM customer_changes", "swallow", "count"),
       Step("changesCount", ""),
       Step("setDatabaseStatus", "") >>

setupTestData_Retry ==
    << AddLog("Setting up test data"),
       Await("DELETE FROM customer_changes", "swallow", ""),
       Await("DELETE FROM customer_changes", "catch", ""),
       Await("INSERT INTO customer_changes", "catch", ""),
       AddLog("Test data setup complete") >>
    \o checkDatabaseStatus_CA
setupTestData ==
    << AddLog("Setting up test data"),
       Await("DELETE FROM customer_changes", "catch", ""),
       Await("INSERT INTO customer_changes", "catch", ""),
       AddLog("Test data setup complete") >>
    \o checkDatabaseStatus_CA

runMergeTest ==
    << AddLog("=== STARTING MERGE APPROACH ==="),
       AddLog("Single MERGE operation will handle: DELETE + UPDATE + INSERT"),
       Await("MERGE INTO customer_profiles", "catch", "time"),
       Step("mergeResult", 1),
       AddLog("MERGE COMPLETED"),
       AddLog("MERGE Results") >>

runTraditionalTest_SwallowThird ==
    << AddLog("=== STARTING TRADITIONAL APPROACH ==="),
       AddLog("Will execute 5 separate operations"),
       Step("initTotals", ""),
       AddLog("1/5 Deleting marked customers"),
       Await("DELETE FROM customer_profiles", "catch", "stats"),
       AddLog("Delete stats"),
       Step("accumulate", estimatedBytesPerRow),
       AddLog("Delete"),
       AddLog("2/5 Updating enterprise customers"),
       Await("UPDATE customer_profiles (enterprise)", "catch", "stats"),
       Step("accumulate", estimatedBytesPerRow),
       AddLog("Enterprise"),
       AddLog("3/5 Updating medium value customers"),
       Await("UPDATE customer_profiles (medium value)", "swallow", "stats"),
       Step("accumulate", estimatedBytesPerRow),
       AddLog("Medium"),
       AddLog("4/5 Updating remaining customers"),
       Await("UPDATE customer_profiles (remaining)", "catch", "stats"),
       Step("accumulate", estimatedBytesPerRow),
       AddLog("Remaining"),
       AddLog("5/5 Inserting new customers"),
       Await("INSERT INTO customer_profiles", "catch", "time"),
       Step("accumulate", estimatedBytesPerRow),
       AddLog("Insert"),
       Step("traditionalResult", 5),
       AddLog("TRADITIONAL COMPLETED"),
       AddLog("Traditional Results") >>

runTraditionalTest ==
    << AddLog("=== STARTING TRADITIONAL APPROACH ==="),
       AddLog("Will execute 5 separate operations"),
       Step("initTotals", ""),
       AddLog("1/5 Deleting marked customers"),
       Await("DELETE FROM customer_profiles", "catch", "stats"),
       AddLog("Delete stats"),
       Step("accumulate", estimatedBytesPerRow),
       AddLog("Delete"),
       AddLog("2/5 Updating enterprise customers"),
       Await("UPDATE customer_profiles (enterprise)", "catch", "stats"),
       Step("accumulate", estimatedBytesPerRow),
       AddLog("Enterprise"),
       AddLog("3/5 Updating medium value customers"),
       Await("UPDATE customer_profiles (medium value)", "catch", "stats"),
       Step("accumulate", estimatedBytesPerRow),
       AddLog("Medium"),
       AddLog("4/5 Updating remaining customers"),
       Await("UPDATE customer_profiles (remaining)", "catch", "stats"),
       Step("accumulate", estimatedBytesPerRow),
       AddLog("Remaining"),
       AddLog("5/5 Inserting new customers"),
       Await("INSERT INTO customer_profiles", "catch", "time"),
       Step("accumulate", estimatedBytesPerRow),
       AddLog("Insert"),
       Step("traditionalResult", 5),
       AddLog("TRADITIONAL COMPLETED"),
       AddLog("Traditional Results") >>

\* The try block of runPerformanceTest, CustomerAnalytics.
TestBody_CA_TraditionalFirst ==
    << AddLog("Starting Customer Analytics MERGE Performance Test") >>
    \o setupTestData
    \o << Set("currentTest", "Running traditional INSERT/UPDATE approach...") >>
    \o runTraditionalTest
    \o << Step("pushTraditional", "") >>
    \o setupTestData
    \o << Set("currentTest", "Running MERGE approach...") >>
    \o runMergeTest
    \o << Step("pushMerge", ""),
          Step("setComparison", ""),
          AddLog("Performance test completed"),
          Set("currentTest", ""),
          Goto("finally") >>

TestBody_CA ==
    << AddLog("Starting Customer Analytics MERGE Performance Test") >>
    \o setupTestData
    \o << Set("currentTest", "Running MERGE approach...") >>
    \o runMergeTest
    \o << Step("pushMerge", "") >>
    \o setupTestData
    \o << Set("currentTest", "Running traditional INSERT/UPDATE approach...") >>
    \o runTraditionalTest
    \o << Step("pushTraditional", ""),
          Step("setComparison", ""),
          AddLog("Performance test completed"),
          Set("currentTest", ""),
          Goto("finally") >>

runPerformanceTest_CA == TestPrelude \o TestBody_CA \o TestCatch \o TestFinally

(***************************************************************************)
(* CustomerAnalytics: the database-management handlers.                    *)
(***************************************************************************)
\* finally { setIsResettingDatabase(false) }
RecreateFinally_Missing ==
    << Label("recreateFinally"), Label("recreateReturn") >>
RecreateFinally ==
    << Label("recreateFinally"), Set("isResettingDatabase", FALSE),
       Label("recreateReturn") >>

recreateTables ==
    << Step("ifResettingDatabase", "recreateReturn"),
       Set("isResettingDatabase", TRUE),
       AddLog("Dropping existing tables"),
       AwaitStmt(DropTable("customer_changes"), "recreateCatch"),
       AwaitStmt(DropTable("customer_profiles"), "recreateCatch"),
       AddLog("Creating customer_profiles table"),
       AwaitStmt(CreateTable("customer_profiles"), "recreateCatch"),
       AddLog("Creating customer_changes table"),
       AwaitStmt(CreateTable("customer_changes"), "recreateCatch"),
       AddLog("Tables recreated successfully") >>
    \o checkDatabaseStatus_CA
    \o << Goto("recreateFinally"),
          Label("recreateCatch"), AddLogError("Failed to recreate tables") >>
    \o RecreateFinally

\* The inner try of loadInitialSampleData: the tables are created when
\* SELECT 1 FROM customer_profiles has failed.  Its finally block resets
\* isResettingDatabase and a failure goes on to the outer catch block.
CreateIfMissing ==
    << Await("SELECT 1 FROM customer_profiles", "createFirst", ""),
       Goto("tablesExist"),
       Label("createFirst"),
       AddLog("Tables don't exist yet, creating them first"),
       Set("isResettingDatabase", TRUE),
       AwaitStmt(DropTable("customer_changes"), "createFailed"),
       AwaitStmt(DropTable("customer_profiles"), "createFailed"),
       AwaitStmt(CreateTable("customer_profiles"), "createFailed"),
       AwaitStmt(CreateTable("customer_changes"), "createFailed"),
       AddLog("Tables created successfully"),
       Set("isResettingDatabase", FALSE),
       Goto("tablesExist"),
       Label("createFailed"), Set("isResettingDatabase", FALSE), Goto("loadCatch"),
       Label("tablesExist") >>

\* for (batch = 0; batch < batches; batch++) of loadInitialSampleData, with
\* batchStart = batch * batchSize + 1 and
\* batchEnd = Math.min((batch + 1) * batchSize, totalCustomers).
InitialBatch(batch) ==
    AwaitStmt(InsertValues(batch * batchSize + 1,
                           Min((batch + 1) * batchSize, totalCustomers)),
              "loadCatch")
InitialBatches ==
    [i \in 1..(2 * ((totalCustomers + batchSize - 1) \div batchSize)) |->
        IF i % 2 = 1 THEN AddLog("Loading batch") ELSE InitialBatch((i \div 2) - 1)]

\* finally { setIsLoadingData(false) }
LoadFinally ==
    << Label("loadFinally"), Set("isLoadingData", FALSE), Label("loadReturn") >>

loadInitialSampleData ==
    << Step("ifLoadingData", "loadReturn"),
       Set("isLoadingData", TRUE),
       AddLog("Loading initial sample data") >>
    \o CreateIfMissing
    \o InitialBatches
    \o << AddLog("Successfully loaded initial customers") >>
    \o checkDatabaseStatus_CA
    \o << Goto("loadFinally"),
          Label("loadCatch"), AddLogError("Failed to load initial data") >>
    \o LoadFinally

\* loadAdditionalData(customerCount): the loop runs on the handler's locals
\* (startId, batch); the step with in = "batch" sends the INSERT of the
\* batch the locals give.
loadAdditionalData ==
    << Step("ifLoadingData", "addReturn"),
       Set("isLoadingData", TRUE),
       AddLog("Loading additional customers"),
       Await("SELECT MAX(customer_id) FROM customer_profiles", "addCatch", "max_id"),
       Step("startId", ""),
       Label("nextBatch"),
       Step("ifBatchesDone", "batchesDone"),
       AddLog("Loading batch"),
       Await("INSERT INTO customer_profiles VALUES", "addCatch", "batch"),
       Step("batch++", ""),
       Goto("nextBatch"),
       Label("batchesDone"),
       Await("SELECT COUNT(*) total_customers FROM customer_profiles", "addCatch",
             "total_customers"),
       AddLog("Successfully loaded additional customers"),
       AddLog("Total customers in database") >>
    \o checkDatabaseStatus_CA
    \o << Goto("addFinally"),
          Label("addCatch"), AddLogError("Failed to load additional data"),
          Label("addFinally"), Set("isLoadingData", FALSE),
          Label("addReturn") >>

\* resetTestsOnly(); await recreateTables(); await loadInitialSampleData();
fullDatabaseReset_CA ==
    << Step("resetTestsOnly", "") >> \o recreateTables \o loadInitialSampleData

(***************************************************************************)
(* AdPerformanceDemo.                                                      *)
(***************************************************************************)
checkDatabaseStatus_AD ==
    << Fetch("/api/status"), Step("setDatabaseStatus", "") >>

checkConnection ==
    << Fetch("/api/health"), Step("setConnectionStatus", ""), Step("end", "") >>

RECURSIVE LoadBatches(_)
LoadBatches(batch) ==
    IF batch * batchSize >= baseRows THEN << >>
    ELSE << AddLog("Loading batch"),
            [op |-> "await", a |-> BatchStmt(batch), catch |-> "loadCatch", in |-> ""] >>
         \o LoadBatches(batch + 1)

loadInitialData ==
    << Step("ifLoadingData", "loadReturn"),
       Set("isLoadingData", TRUE),
       AddLog("Generating ad performance records") >>
    \o LoadBatches(0)
    \o << AddLog("Loaded ad performance records") >>
    \o checkDatabaseStatus_AD
    \o << Goto("loadFinally"),
          Label("loadCatch"), AddLogError("Failed to load data"),
          Label("loadFinally"), Set("isLoadingData", FALSE),
          Label("loadReturn") >>

createTables ==
    << Step("ifResettingDatabase", "createReturn"),
       Set("isResettingDatabase", TRUE),
       AddLog("Dropping existing tables"),
       AwaitStmt(DropTable("detected_fraud"), "createCatch"),
       AwaitStmt(DropTable("attribution_updates"), "createCatch"),
       AwaitStmt(DropTable("ad_performance"), "createCatch"),
       AddLog("Creating ad_performance table"),
       AwaitStmt(CreateTable("ad_performance"), "createCatch"),
       AddLog("Creating attribution_updates table"),
       AwaitStmt(CreateTable("attribution_updates"), "createCatch"),
       AddLog("Creating detected_fraud table"),
       AwaitStmt(CreateTable("detected_fraud"), "createCatch"),
       AddLog("All tables created successfully") >>
    \o checkDatabaseStatus_AD
    \o << Goto("createFinally"),
          Label("createCatch"), AddLogError("Failed to create tables"),
          Label("createFinally"), Set("isResettingDatabase", FALSE),
          Label("createReturn") >>

\* setLogs([]); await createTables(); await loadInitialData();
fullDatabaseReset_AD ==
    << Set("logs", << >>) >> \o createTables \o loadInitialData

setupAttributionTestData ==
    << AddLog("Setting up attribution test data"),
       AddLog("Workload split"),
       Await("DELETE FROM attribution_updates", "catch", ""),
       Await("INSERT INTO attribution_updates (existing clicks)", "catch", ""),
       Await("INSERT INTO attribution_updates (new clicks)", "catch", ""),
       AddLog("Test data ready") >>

setupFraudTestData ==
    << AddLog("Setting up fraud detection test data"),
       Await("DELETE FROM detected_fraud", "catch", ""),
       Await("INSERT INTO detected_fraud", "catch", ""),
       AddLog("Test data ready") >>

runAttributionMergeTest ==
    << AddLog("=== STARTING ATTRIBUTION MERGE TEST ==="),
       AddLog("Single MERGE operation handles both: UPDATE existing + INSERT new"),
       Await("MERGE INTO ad_performance (attribution)", "catch", "time"),
       Step("mergeResult", 1),
       AddLog("MERGE COMPLETED"),
       AddLog("Stats") >>

runAttributionTraditionalTest ==
    << AddLog("=== STARTING TRADITIONAL ATTRIBUTION TEST ==="),
       AddLog("Will execute 3 separate operations"),
       Step("initTotals", ""),
       AddLog("1/3 Updating existing clicks"),
       Await("UPDATE ad_performance", "catch", "stats"),
       Step("accumulate", 0),
       AddLog("2/3 Identifying new clicks"),
       Await("SELECT COUNT(*) new clicks", "catch", "stats"),
       Step("accumulate", 0),
       AddLog("3/3 Inserting new clicks"),
       Await("INSERT INTO ad_performance (new clicks)", "catch", "time"),
       Step("accumulate", 0),
       Step("traditionalResult", 3),
       AddLog("TRADITIONAL COMPLETED"),
       AddLog("Stats") >>

runFraudMergeTest ==
    << AddLog("=== STARTING FRAUD DETECTION MERGE TEST ==="),
       AddLog("Single MERGE DELETE removes fraudulent clicks atomically"),
       Await("MERGE INTO ad_performance (fraud)", "catch", "time"),
       Step("mergeResult", 1),
       AddLog("FRAUD MERGE COMPLETED"),
       AddLog("Stats") >>

runFraudTraditionalTest ==
    << AddLog("=== STARTING TRADITIONAL FRAUD DELETION TEST ==="),
       AddLog("Will execute 2 separate operations"),
       Step("initTotals", ""),
       AddLog("1/2 Finding fraudulent clicks"),
       Await("SELECT fraudulent clicks", "catch", "stats"),
       Step("accumulate", 0),
       AddLog("2/2 Deleting fraudulent clicks"),
       Await("DELETE FROM ad_performance", "catch", "time"),
       Step("accumulate", 0),
       Step("traditionalResult", 2),
       AddLog("TRADITIONAL COMPLETED"),
       AddLog("Stats") >>

\* The try block of runPerformanceTest, AdPerformanceDemo.
TestBody_AD(type) ==
    << AddLog("Starting MERGE Performance Test"), AddLog("Test type") >>
    \o (IF type = "attribution" \/ type = "both"
        THEN setupAttributionTestData
             \o << Set("currentTest", "Running Attribution MERGE...") >>
             \o runAttributionMergeTest
             \o << Step("pushMerge", "") >>
             \o setupAttributionTestData
             \o << Set("currentTest", "Running Traditional Attribution...") >>
             \o runAttributionTraditionalTest
             \o << Step("pushTraditional", ""),
                   Step("setComparison", ""),
                   AddLog("Test completed") >>
        ELSE << >>)
    \o (IF type = "fraud"
        THEN setupFraudTestData
             \o << Set("currentTest", "Running Fraud MERGE DELETE...") >>
             \o runFraudMergeTest
             \o << Step("pushMerge", "") >>
             \o loadInitialData
             \o setupFraudTestData
             \o << Set("currentTest", "Running Traditional Fraud Deletion...") >>
             \o runFraudTraditionalTest
             \o << Step("pushTraditional", ""),
                   Step("setComparison", ""),
                   AddLog("Test completed") >>
        ELSE << >>)
    \o << Set("currentTest", "") >>
    \o checkDatabaseStatus_AD
    \o << Goto("finally") >>

runPerformanceTest_AD(type) == TestPrelude \o TestBody_AD(type) \o TestCatch \o TestFinally

\* The status check a mount effect or the Refresh button starts.
StatusCheck(c) ==
    (IF c = CA THEN checkDatabaseStatus_CA ELSE checkDatabaseStatus_AD)
    \o << Step("end", "") >>

\* A handler a button starts, to its end.
Handler(prog) == prog \o << Step("end", "") >>

HandlerNames ==
    {"runPerformanceTest", "checkDatabaseStatus", "checkConnection",
     "recreateTables", "loadInitialSampleData", "fullDatabaseReset",
     "loadAdditionalData"}

Programs ==
    [c \in Components, name \in HandlerNames, type \in {"", "attribution", "fraud"} |->
        CASE name = "runPerformanceTest" ->
               IF c = CA THEN runPerformanceTest_CA ELSE runPerformanceTest_AD(type)
          [] name = "checkDatabaseStatus" -> StatusCheck(c)
          [] name = "checkConnection" -> checkConnection
          [] name = "recreateTables" ->
               Handler(IF c = CA THEN recreateTables ELSE createTables)
          [] name = "loadInitialSampleData" ->
               Handler(IF c = CA THEN loadInitialSampleData ELSE loadInitialData)
          [] name = "fullDatabaseReset" ->
               Handler(IF c = CA THEN fullDatabaseReset_CA ELSE fullDatabaseReset_AD)
          [] name = "loadAdditionalData" -> Handler(loadAdditionalData)]

Program(c, name, type) == Programs[c, name, type]

LabelIndex(prog, l) ==
    CHOOSE i \in 1..Len(prog) : prog[i].op = "label" /\ prog[i].a = l

(***************************************************************************)
(* State.                                                                  *)
(***************************************************************************)
VARIABLES
    component,         \* the demo component that is mounted
    isRunning, testResults, currentTest, comparison, dataScale, testType,
    logs, isLoadingData, isResettingDatabase, databaseStatus, connectionStatus,
                       \* the component's React state
    db,                \* the external database
    inflight,          \* requests sent and not yet answered
    tasks,             \* the handlers in progress: position and locals
    trace,             \* the executor calls of the current test sequence and of
                       \* the database-management operations
    dbAtMerge,         \* the database when this sequence issued its MERGE
    started, ended,    \* test sequences started / ended so far
    failures,          \* requests that have failed so far
    reported,          \* what the responses of the current test sequence reported
    env,               \* what the environment may do in this behaviour
    calc,              \* the calculator on its own: inputs and output
    io,                \* one HTTP exchange on its own: inputs, response, outcome
    logEdits,          \* clicks on the buttons of the log panel so far
    managed,           \* database-management operations started so far
    server,            \* the proxy process on its own: cached connection, requests
    setup              \* the connection setup page on its own

vars == << component, isRunning, testResults, currentTest, comparison, dataScale,
           testType, logs, isLoadingData, isResettingDatabase, databaseStatus,
           connectionStatus, db, inflight, tasks, trace, dbAtMerge, started,
           ended, failures, reported, env, calc, io, logEdits, managed,
           server, setup >>

\* The options of the Data Scale select, the first NumScales of them.
ScaleList(c) ==
    IF c = CA THEN << "1x", "3x", "5x", "10x", "25x", "50x" >>
    ELSE << "1x", "5x", "10x", "25x", "50x" >>
ScaleOptions(c) ==
    {ScaleList(c)[i] : i \in 1..Min(NumScales, Len(ScaleList(c)))}
TestTypes == {"attribution", "fraud"}

Line(text, arg) == [text |-> text, arg |-> arg]
NoResult == [ok |-> FALSE, rows_read |-> 0, bytes_read |-> 0, data |-> 0]
NoTestResult ==
    [approach |-> "", executionTime |-> 0, rowsProcessed |-> 0, bytesScanned |-> 0,
     operationCount |-> 0, scale |-> ""]

IdleTask ==
    [prog |-> "", pc |-> 0, type |-> "", scale |-> "", closureLoading |-> FALSE,
     closureResetting |-> FALSE, batch |-> 0, startId |-> 0, customerCount |-> 0,
     result |-> NoResult, error |-> "", elapsed |-> 0,
     mergeResult |-> NoTestResult, traditionalResult |-> NoTestResult,
     totalRows |-> 0, totalBytes |-> 0, profilesCount |-> 0, changesCount |-> 0]

NewTask(name, type, scale, loading) ==
    [IdleTask EXCEPT !.prog = name, !.pc = 1, !.type = type, !.scale = scale,
                     !.closureLoading = loading]

\* The state as one record, for the handlers to work on.
State ==
    [isRunning |-> isRunning, testResults |-> testResults, currentTest |-> currentTest,
     comparison |-> comparison, dataScale |-> dataScale, testType |-> testType,
     logs |-> logs, isLoadingData |-> isLoadingData,
     isResettingDatabase |-> isResettingDatabase, databaseStatus |-> databaseStatus,
     connectionStatus |-> connectionStatus, db |-> db, inflight |-> inflight,
     tasks |-> tasks, trace |-> trace, dbAtMerge |-> dbAtMerge, ended |-> ended,
     reported |-> reported]

Install(s) ==
    \E v \in {s} :
        /\ isRunning' = v.isRunning
        /\ testResults' = v.testResults
        /\ currentTest' = v.currentTest
        /\ comparison' = v.comparison
        /\ dataScale' = v.dataScale
        /\ testType' = v.testType
        /\ logs' = v.logs
        /\ isLoadingData' = v.isLoadingData
        /\ isResettingDatabase' = v.isResettingDatabase
        /\ databaseStatus' = v.databaseStatus
        /\ connectionStatus' = v.connectionStatus
        /\ db' = v.db
        /\ inflight' = v.inflight
        /\ tasks' = v.tasks
        /\ trace' = v.trace
        /\ dbAtMerge' = v.dbAtMerge
        /\ ended' = v.ended
        /\ reported' = v.reported

IsMerge(stmt) ==
    stmt.sql \in {"MERGE INTO customer_profiles",
                  "MERGE INTO ad_performance (attribution)",
                  "MERGE INTO ad_performance (fraud)"}

\* The statements that runTraditionalTest / run...TraditionalTest issue.
IsTraditional(stmt) ==
    stmt.sql \in {"DELETE FROM customer_profiles",
                  "UPDATE customer_profiles (enterprise)",
                  "UPDATE customer_profiles (medium value)",
                  "UPDATE customer_profiles (remaining)",
                  "INSERT INTO customer_profiles",
                  "UPDATE ad_performance",
                  "SELECT COUNT(*) new clicks",
                  "INSERT INTO ad_performance (new clicks)",
                  "SELECT fraudulent clicks",
                  "DELETE FROM ad_performance"}

\* What the responses of a test sequence have reported so far: the sums of
\* rows_read and of bytes_read over the traditional statements, the rows_read
\* of those among them that came with no or zero bytes_read, whether one of
\* them lacked a statistic, whether one had no or zero bytes_read, the
\* statistics of the MERGE response, and whether a statement that is neither
\* reported a non-zero statistic.
\* The latest /api/status request: answered or not, and the tables whose
\* COUNT query failed at the server.
NoStatusAnswer == [answered |-> FALSE, down |-> {}]

NothingReported ==
    [rows |-> 0, bytes |-> 0, unmeasuredRows |-> 0, missing |-> FALSE,
     noBytes |-> FALSE, merge |-> [rows_read |-> absent, bytes_read |-> absent],
     other |-> FALSE, status |-> NoStatusAnswer]

Report(r, stmt, rows, bytes) ==
    IF IsTraditional(stmt)
    THEN [r EXCEPT !.rows = @ + OrZero(rows),
                   !.bytes = @ + OrZero(bytes),
                   !.unmeasuredRows = @ + (IF OrZero(bytes) = 0 THEN OrZero(rows) ELSE 0),
                   !.missing = @ \/ rows = absent \/ bytes = absent,
                   !.noBytes = @ \/ OrZero(bytes) = 0]
    ELSE IF IsMerge(stmt)
    THEN [r EXCEPT !.merge = [rows_read |-> rows, bytes_read |-> bytes]]
    ELSE [r EXCEPT !.other = @ \/ OrZero(rows) > 0 \/ OrZero(bytes) > 0]

\* addLog
addLog(s, text, arg) == [s EXCEPT !.logs = Append(@, Line(text, arg))]

\* The TestResult runMergeTest / run...MergeTest returns.
MergeTestResult_Estimated(t, ops) ==
    [approach |-> "MERGE", executionTime |-> t.elapsed,
     rowsProcessed |-> OrZero(t.result.rows_read),
     bytesScanned |-> IF OrZero(t.result.bytes_read) # 0 THEN OrZero(t.result.bytes_read)
                      ELSE OrZero(t.result.rows_read) * estimatedBytesPerRow,
     operationCount |-> ops, scale |-> t.scale]
MergeTestResult(t, ops) ==
    [approach |-> "MERGE", executionTime |-> t.elapsed,
     rowsProcessed |-> OrZero(t.result.rows_read),
     bytesScanned |-> OrZero(t.result.bytes_read),
     operationCount |-> ops, scale |-> t.scale]

\* The TestResult runTraditionalTest / run...TraditionalTest returns.
TraditionalTestResult(c, t, ops) ==
    [approach |-> IF c = CA THEN "INSERT_UPDATE" ELSE "TRADITIONAL",
     executionTime |-> t.elapsed,
     rowsProcessed |-> t.totalRows, bytesScanned |-> t.totalBytes,
     operationCount |-> ops, scale |-> t.scale]

\* totalRowsProcessed += rows; totalBytesScanned += bytesFromStats || estimated
Accumulate_Overwrites(t, perRow) ==
    [t EXCEPT !.totalRows = OrZero(t.result.rows_read),
              !.totalBytes = IF OrZero(t.result.bytes_read) # 0
                             THEN OrZero(t.result.bytes_read)
                             ELSE OrZero(t.result.rows_read) * perRow]
Accumulate(t, perRow) ==
    [t EXCEPT !.totalRows = @ + OrZero(t.result.rows_read),
              !.totalBytes = @ + (IF OrZero(t.result.bytes_read) # 0
                                  THEN OrZero(t.result.bytes_read)
                                  ELSE OrZero(t.result.rows_read) * perRow)]

\* setDatabaseStatus at the end of checkDatabaseStatus
StatusOf(c, t) ==
    IF c = CA
    THEN [customerProfiles |-> t.profilesCount, customerChanges |-> t.changesCount]
    ELSE IF t.result.ok THEN t.result.data
         ELSE [ad_performance |-> 0, attribution_updates |-> 0, detected_fraud |-> 0]

\* result.data?.[0]?.<column>: the named column of the first row.  The
\* engine's answer in the format JSON_Compact has its rows as arrays, which
\* have no property of that name (undefined).
Column(data, compact) == IF compact THEN absent ELSE data

\* loadAdditionalData: batches = Math.ceil(customerCount / batchSize) and, for
\* each batch, batchStartId = startId + batch * batchSize and
\* batchEndId = Math.min(batchStartId + batchSize - 1, startId + customerCount - 1).
batches(customerCount) == (customerCount + batchSize - 1) \div batchSize
batchStartId(t) == t.startId + t.batch * batchSize
batchEndId(t) == Min(batchStartId(t) + batchSize - 1, t.startId + t.customerCount - 1)

\* The handlers whose executor calls the trace records: the test sequence
\* and the database-management operations.
Traced(id) == id \in {"test", "manage", "load"}

\* The statement an await step sends.
StatementOf(step, t) ==
    IF step.in = "batch" THEN InsertValues(batchStartId(t), batchEndId(t)) ELSE step.a

(***************************************************************************)
(* Run: handler id runs from its current step up to its next await, where  *)
(* it sends the request, or to its end.                                    *)
(***************************************************************************)
RECURSIVE Run(_, _), RunOn(_, _), RunStep(_, _, _, _, _)
\* The step of handler id at its position.
Run(s, id) ==
    CHOOSE out \in
        {RunStep(s, id, s.tasks[id], prog, prog[s.tasks[id].pc]) :
            prog \in {Program(component, s.tasks[id].prog, s.tasks[id].type)}} : TRUE

RunStep(s, id, t, prog, step) ==
    LET upd(s2, t2) == [s2 EXCEPT !.tasks[id] = t2]
        next(s2) == RunOn([s2 EXCEPT !.tasks[id].pc = t.pc + 1], id)
        jump(s2, l) == RunOn([s2 EXCEPT !.tasks[id].pc = LabelIndex(prog, l)], id)
    IN CASE step.op = "addLog" -> next(addLog(s, step.a, ""))
         [] step.op = "addLogError" -> next(addLog(s, step.a, t.error))
         [] step.op = "set" -> next([s EXCEPT ![step.a[1]] = step.a[2]])
         [] step.op = "label" -> next(s)
         [] step.op = "goto" -> jump(s, step.a)
         [] step.op = "ifLoadingData" ->
              IF t.closureLoading THEN jump(s, step.a) ELSE next(s)
         [] step.op = "ifResettingDatabase" ->
              IF t.closureResetting THEN jump(s, step.a) ELSE next(s)
         [] step.op = "resetTestsOnly" ->
              next([s EXCEPT !.testResults = << >>, !.comparison = null,
                             !.logs = << >>, !.currentTest = ""])
         [] step.op = "startId" ->
              next(upd(s, [t EXCEPT !.startId = OrZero(Column(t.result.data, s.db.compact)) + 1,
                                    !.batch = 0]))
         [] step.op = "ifBatchesDone" ->
              IF t.batch >= batches(t.customerCount) THEN jump(s, step.a) ELSE next(s)
         [] step.op = "batch++" ->
              next(upd(s, [t EXCEPT !.batch = @ + 1]))
         [] step.op = "initTotals" ->
              next(upd(s, [t EXCEPT !.totalRows = 0, !.totalBytes = 0]))
         [] step.op = "mergeResult" ->
              next(upd(s, [t EXCEPT !.mergeResult = MergeTestResult(t, step.a)]))
         [] step.op = "accumulate" -> next(upd(s, Accumulate(t, step.a)))
         [] step.op = "traditionalResult" ->
              next(upd(s, [t EXCEPT !.traditionalResult =
                                       TraditionalTestResult(component, t, step.a)]))
         [] step.op = "pushMerge" ->
              next([s EXCEPT !.testResults = Append(@, t.mergeResult)])
         [] step.op = "pushTraditional" ->
              next([s EXCEPT !.testResults = Append(@, t.traditionalResult)])
         [] step.op = "setComparison" ->
              next([s EXCEPT !.comparison =
                       calculateComparison(component, t.mergeResult, t.traditionalResult)])
         [] step.op = "profilesCount" ->
              next(upd(s, [t EXCEPT !.profilesCount =
                                       IF t.result.ok THEN OrZero(Column(t.result.data, s.db.compact))
                                       ELSE 0]))
         [] step.op = "changesCount" ->
              next(upd(s, [t EXCEPT !.changesCount =
                                       IF t.result.ok THEN OrZero(Column(t.result.data, s.db.compact))
                                       ELSE 0]))
         [] step.op = "setDatabaseStatus" ->
              next([s EXCEPT !.databaseStatus = StatusOf(component, t)])
         [] step.op = "setConnectionStatus" ->
              IF t.result.ok
              THEN next(addLog([s EXCEPT !.connectionStatus = "connected"],
                               "Connected to Firebolt Cloud", ""))
              ELSE next(addLog([s EXCEPT !.connectionStatus = "error"],
                               "Cannot connect to API server", ""))
         [] step.op = "await" ->
              \* executeFireboltQuery / executeQuery up to its await fetch(...)
              [addLog(s, "Executing query", step.a.sql) EXCEPT
                  !.inflight = @ \cup {[owner |-> id, stmt |-> StatementOf(step, t)]},
                  !.tasks[id].result = NoResult,
                  !.tasks[id].elapsed = 0,
                  !.trace = IF Traced(id)
                            THEN Append(@, [ev |-> "issue", stmt |-> StatementOf(step, t),
                                            msg |-> ""])
                            ELSE @,
                  !.dbAtMerge = IF id = "test" /\ IsMerge(step.a) THEN s.db ELSE @]
         [] step.op = "fetch" ->
              [s EXCEPT !.inflight = @ \cup {[owner |-> id, stmt |-> step.a]},
                        !.tasks[id].result = NoResult,
                        !.tasks[id].elapsed = 0]
         [] step.op = "end" ->
              [s EXCEPT !.tasks[id] = IdleTask,
                        !.ended = IF id = "test" THEN @ + 1 ELSE @]

\* Run on the state s, s being evaluated once.
RunOn(s, id) == CHOOSE out \in {Run(v, id) : v \in {s}} : TRUE

(***************************************************************************)
(* One HTTP exchange of a query executor: executeFireboltQuery             *)
(* (CustomerAnalytics) posts the SQL text to the engine's endpoint,        *)
(* executeQuery (AdPerformanceDemo) posts { sql } to the API server, whose *)
(* /api/query handler runs it on the engine and formats the result.        *)
(***************************************************************************)
\* What fetch() hands the executor: a rejection, or a response with
\* response.ok, whether its body parses as JSON, and the fields of the body
\* the executors read (success and error by executeQuery, errors by
\* executeFireboltQuery).
Response(rejected, ok, json, success, errors, error) ==
    [rejected |-> rejected, ok |-> ok, json |-> json, success |-> success,
     errors |-> errors, error |-> error]

FetchRejected == Response(TRUE, FALSE, FALSE, FALSE, FALSE, "")

\* A response that is not the endpoint's: an error page of the dev server's
\* proxy (non-2xx) or a page served in its place (2xx), neither one JSON.
NotFromEndpoint(ok) == Response(FALSE, ok, FALSE, FALSE, FALSE, "")

\* What the engine makes of a statement: a result (meta, data, statistics)
\* or an error with a message.
EngineResult(meta, data, rowsRead, bytesRead) ==
    [kind |-> "result", meta |-> meta, data |-> data,
     statistics |-> [rowsRead |-> rowsRead, bytesRead |-> bytesRead],
     message |-> ""]
EngineError(message) ==
    [kind |-> "error", meta |-> << >>, data |-> << >>,
     statistics |-> [rowsRead |-> absent, bytesRead |-> absent],
     message |-> message]

\* x || y for a number x that may be missing.
Or(x, y) == IF x = absent \/ x = 0 THEN y ELSE x

\* columns.forEach((col, i) => { obj[col] = row[i] }) from column i on.
RECURSIVE forEachColumn(_, _, _, _)
forEachColumn(obj, columns, row, i) ==
    IF i > Len(columns)
    THEN obj
    ELSE forEachColumn([col \in DOMAIN obj \cup {columns[i]} |->
                           IF col = columns[i] THEN row[i] ELSE obj[col]],
                       columns, row, i + 1)

\* rows.map(row => { const obj = {}; columns.forEach(...); return obj })
formattedData(columns, rows) ==
    [r \in 1..Len(rows) |-> forEachColumn(<< >>, columns, rows[r], 1)]

NoStatistics == [execution_time_ms |-> 0, rows_read |-> 0, bytes_read |-> 0]

\* A JSON body of the API server: the keys it has and their values.
Body(keys, success, error, data, meta, statistics) ==
    [keys |-> keys, success |-> success, error |-> error, data |-> data,
     meta |-> meta, statistics |-> statistics]

\* app.post('/api/query'): the response, and how many times the statement
\* was handed to the engine (executeQuery of the server: one conn.execute).
apiQuery(sql, engine, elapsed) ==
    IF ~sql
    THEN [status |-> 400, executed |-> 0,
          body |-> Body({"error"}, FALSE, "SQL query is required", << >>, << >>,
                        NoStatistics)]
    ELSE IF engine.kind = "error"
    THEN [status |-> 500, executed |-> 1,
          body |-> Body({"success", "error"}, FALSE, engine.message, << >>, << >>,
                        NoStatistics)]
    ELSE [status |-> 200, executed |-> 1,
          body |-> Body({"success", "data", "meta", "statistics"}, TRUE, "",
                        formattedData(engine.meta, engine.data), engine.meta,
                        [execution_time_ms |-> elapsed,
                         rows_read |-> Or(engine.statistics.rowsRead, Len(engine.data)),
                         bytes_read |-> Or(engine.statistics.bytesRead, 0)])]

\* The API server's response as executeQuery's fetch sees it.
AsResponse(p) ==
    Response(FALSE, p.status \in 200..299, TRUE,
             "success" \in p.body.keys /\ p.body.success, FALSE,
             IF "error" \in p.body.keys THEN p.body.error ELSE "")

\* The engine endpoint's response as executeFireboltQuery's fetch sees it:
\* an error comes as a non-2xx status or as an errors array in a 2xx body.
CoreResponse(engine, errorAsStatus) ==
    IF engine.kind = "error"
    THEN IF errorAsStatus
         THEN Response(FALSE, FALSE, FALSE, FALSE, FALSE, engine.message)
         ELSE Response(FALSE, TRUE, TRUE, FALSE, TRUE, engine.message)
    ELSE Response(FALSE, TRUE, TRUE, FALSE, FALSE, "")

(***************************************************************************)
(* The query executor after its fetch.  It returns the parsed body or      *)
(* throws an Error; the lines it logs and the message of the Error:        *)
(***************************************************************************)
Returned ==
    [returns |-> TRUE, lines |-> << Line("Query completed successfully", "") >>,
     message |-> ""]

\* throw inside the try block: the catch logs the message and rethrows.
Thrown(before, message) ==
    [returns |-> FALSE,
     lines |-> before \o << Line("Query execution failed", message) >>,
     message |-> message]

executeFireboltQuery(response) ==
    IF response.rejected THEN Thrown(<< >>, "Failed to fetch")
    ELSE IF ~response.ok
    THEN Thrown(<< Line("HTTP error", "status") >>, "HTTP error! status")
    ELSE IF ~response.json THEN Thrown(<< >>, "Unexpected token")
    ELSE IF response.errors
    THEN Thrown(<< Line("Query error", response.error) >>, "Query error: description")
    ELSE Returned

executeQuery_IgnoresSuccess(response) ==
    IF response.rejected THEN Thrown(<< >>, "Failed to fetch")
    ELSE IF ~response.json THEN Thrown(<< >>, "Unexpected token")
    ELSE Returned

executeQuery(response) ==
    IF response.rejected THEN Thrown(<< >>, "Failed to fetch")
    ELSE IF ~response.json THEN Thrown(<< >>, "Unexpected token")
    ELSE IF ~response.success
    THEN Thrown(<< Line("Query error", response.error) >>, response.error)
    ELSE Returned

Executor(c, response) ==
    IF c = CA THEN executeFireboltQuery(response) ELSE executeQuery(response)

(***************************************************************************)
(* In the page model a call ends in one of: a result ("ok"), a rejected    *)
(* fetch ("network"), a response that is not the endpoint's ("http"), an   *)
(* error reported by the engine ("engine").                                *)
(***************************************************************************)
ExecutorOutcomes == {"ok", "network", "http", "engine"}

ResponseOf(c, outcome) ==
    CASE outcome = "network" -> FetchRejected
      [] outcome = "http" -> NotFromEndpoint(FALSE)
      [] outcome = "engine" /\ c = CA -> CoreResponse(EngineError("description"), FALSE)
      [] outcome = "engine" /\ c = AD -> AsResponse(apiQuery(TRUE, EngineError("error"), 0))

ExecutorThrows(c, outcome) ==
    LET out == Executor(c, ResponseOf(c, outcome))
    IN [lines |-> out.lines, message |-> out.message]

\* app.get('/api/status'): the COUNT(*) of each table in turn; a table whose
\* query fails (down) counts 0 and the loop goes on.
AdTables == {"ad_performance", "attribution_updates", "detected_fraud"}

apiStatus_FailsWhole(d, down) ==
    [table \in AdTables |-> IF down # {} THEN 0 ELSE Or(BagCardinality(d[table]), 0)]
apiStatus(d, down) ==
    [table \in AdTables |-> IF table \in down THEN 0 ELSE Or(BagCardinality(d[table]), 0)]

\* The rows of customer_profiles: those of the tracked window and the others.
RECURSIVE SumOver(_, _)
SumOver(S, f) ==
    IF S = {} THEN 0
    ELSE LET x == CHOOSE y \in S : TRUE IN f[x] + SumOver(S \ {x}, f)
CountOfProfiles(d) ==
    BagCardinality(d.customer_profiles)
      + SumOver(BagToSet(d.others),
                [r \in BagToSet(d.others) |-> d.others[r] * (r.hi - r.lo + 1)])

\* SELECT COALESCE(MAX(customer_id), 0) FROM customer_profiles
MaxCustomerIdOf(d) ==
    LET ids == {r.key : r \in Rows(d.customer_profiles)}
                 \cup {r.hi : r \in BagToSet(d.others)}
    IN IF ids = {} THEN 0 ELSE CHOOSE m \in ids : \A i \in ids : i <= m

\* The rows a response carries, as far as a handler reads them.
ResponseData(stmt, d, down) ==
    CASE stmt.sql = "SELECT COUNT(*) FROM customer_profiles" -> CountOfProfiles(d)
      [] stmt.sql = "SELECT COUNT(*) FROM customer_changes" ->
           BagCardinality(d.customer_changes)
      [] stmt.sql = "/api/status" -> apiStatus(d, down \cup (AdTables \ d.exists))
      [] stmt.sql = "SELECT MAX(customer_id) FROM customer_profiles" -> MaxCustomerIdOf(d)
      [] stmt.sql = "SELECT COUNT(*) total_customers FROM customer_profiles" ->
           CountOfProfiles(d)
      [] OTHER -> 0

\* The handler that awaits req gets its answer and runs on from step.
ResumeAt(s, req, outcome, rows, bytes, elapsed, pick, down, prog, step) ==
    LET id == req.owner
        t == s.tasks[id]
        s0 == [s EXCEPT !.inflight = @ \ {req}]
        event(ev, msg) == IF Traced(id) /\ step.op = "await"
                          THEN Append(s.trace, [ev |-> ev, stmt |-> req.stmt, msg |-> msg])
                          ELSE s.trace
        result == [ok |-> TRUE, rows_read |-> rows, bytes_read |-> bytes,
                   data |-> ResponseData(req.stmt, s.db, down)]
        thrown == ExecutorThrows(component, outcome)
    IN IF outcome = "ok"
       THEN RunOn([(IF step.op = "await"
                  THEN addLog(s0, "Query completed successfully", "") ELSE s0)
                 EXCEPT !.db = Effect(req.stmt, s.db, t.scale, pick),
                        !.trace = event("ok", ""),
                        !.reported = IF id = "test" /\ step.op = "await"
                                     THEN Report(@, req.stmt, rows, bytes)
                                     ELSE IF req.stmt.sql = "/api/status"
                                     THEN [@ EXCEPT !.status = [answered |-> TRUE,
                                                                down |-> down]]
                                     ELSE @,
                        !.tasks[id].result = result,
                        !.tasks[id].elapsed = elapsed,
                        !.tasks[id].pc = t.pc + 1], id)
       ELSE IF step.op = "fetch"
       THEN RunOn([s0 EXCEPT !.reported = IF req.stmt.sql = "/api/status"
                                        THEN [@ EXCEPT !.status = NoStatusAnswer]
                                        ELSE @,
                           !.tasks[id].pc = t.pc + 1], id)
       ELSE IF step.catch = "swallow"
       THEN RunOn([s0 EXCEPT !.logs = @ \o thrown.lines,
                           !.trace = event("fail", thrown.message),
                           !.tasks[id].pc = t.pc + 1], id)
       ELSE RunOn([s0 EXCEPT !.logs = @ \o thrown.lines,
                           !.trace = event("fail", thrown.message),
                           !.tasks[id].error = thrown.message,
                           !.tasks[id].pc = LabelIndex(prog, step.catch)], id)

\* The handler that awaits req gets its answer and runs on.
Resume(s, req, outcome, rows, bytes, elapsed, pick, down) ==
    CHOOSE out \in
        {ResumeAt(s, req, outcome, rows, bytes, elapsed, pick, down,
                  prog, prog[s.tasks[req.owner].pc]) :
            prog \in {Program(component, s.tasks[req.owner].prog,
                              s.tasks[req.owner].type)}} : TRUE

(***************************************************************************)
(* Actions.                                                                *)
(***************************************************************************)
\* The engine answers a statement it cannot run with an error.
Refused(stmt, d, outcome) == outcome = "engine" /\ ~Executable(stmt, d)

\* A response, or the failure of the request, reaches the page.
Respond ==
    \E req \in inflight :
     \E step \in {Program(component, tasks[req.owner].prog,
                           tasks[req.owner].type)[tasks[req.owner].pc]} :
      LET t == tasks[req.owner]
          stats == IF step.op = "await" THEN env.stats ELSE {0}
          times == IF step.in = "time" THEN env.times ELSE {0}
      IN \E outcome \in (IF step.op = "fetch" THEN {"ok", "network"} ELSE ExecutorOutcomes) :
           /\ outcome = "ok" => Executable(req.stmt, db)
           /\ outcome # "ok" => failures < env.faults \/ Refused(req.stmt, db, outcome)
           /\ \E rows \in (IF outcome = "ok" THEN stats ELSE {0}),
                bytes \in (IF outcome = "ok" THEN stats ELSE {0}),
                elapsed \in (IF outcome = "ok" THEN times ELSE {0}),
                pick \in (IF outcome = "ok" THEN Picks(req.stmt, db, t.scale) ELSE {EmptyBag}),
                down \in (IF outcome = "ok" /\ req.stmt.sql = "/api/status"
                          THEN SUBSET env.down ELSE {{}}) :
               /\ failures + Cardinality(down) <= env.faults
               /\ failures' = IF outcome = "ok" THEN failures + Cardinality(down)
                              ELSE IF Refused(req.stmt, db, outcome) THEN failures
                              ELSE failures + 1
               /\ Install(Resume(State, req, outcome, rows, bytes, elapsed, pick, down))
               /\ UNCHANGED << component, started, env, calc, io, logEdits, managed, server, setup >>

\* if (isRunning) return;
AlreadyRunning_Never == FALSE
AlreadyRunning == isRunning

\* disabled={isRunning} / disabled={isRunning || connectionStatus !== 'connected'}
StartButtonEnabled ==
    /\ ~isRunning
    /\ component = AD => connectionStatus = "connected"

\* runPerformanceTest is invoked.
RunPerformanceTest ==
    IF AlreadyRunning
    THEN UNCHANGED vars
    ELSE /\ component = AD => connectionStatus = "connected"
         /\ started < env.runs
         /\ started' = started + 1
         /\ Install(RunOn([State EXCEPT
                              !.tasks["test"] =
                                  NewTask("runPerformanceTest", testType, dataScale,
                                          isLoadingData),
                              !.trace = << >>,
                              !.reported = NothingReported], "test"))
         /\ UNCHANGED << component, failures, env, calc, io, logEdits, managed, server, setup >>

\* disabled={isRunning || isResettingDatabase || isLoadingData}
ManagementEnabled == ~(isRunning \/ isResettingDatabase \/ isLoadingData)

\* A database-management handler starts as task id.
Manage(id, name, customerCount) ==
    /\ managed < env.ops
    /\ managed' = managed + 1
    /\ Install(RunOn([State EXCEPT
                         !.tasks[id] =
                             [NewTask(name, testType, dataScale, isLoadingData) EXCEPT
                                 !.closureResetting = isResettingDatabase,
                                 !.customerCount = customerCount]], id))
    /\ UNCHANGED << component, started, failures, env, calc, io, logEdits, server, setup >>

\* The buttons Recreate Tables, Load Initial Data and Full Reset.
RecreateTables ==
    /\ ManagementEnabled
    /\ Manage("manage", "recreateTables", 0)

LoadInitialSampleData ==
    /\ ManagementEnabled
    /\ Manage("manage", "loadInitialSampleData", 0)

FullDatabaseReset ==
    /\ ManagementEnabled
    /\ Manage("manage", "fullDatabaseReset", 0)

\* The buttons +10K, +25K, +50K, +100K of CustomerAnalytics, the first
\* NumLoads of them: disabled={isRunning || isLoadingData}.  One
\* loadAdditionalData at a time is followed.
LoadCounts == << 10000, 25000, 50000, 100000 >>
LoadAdditionalData ==
    /\ component = CA
    /\ ~(isRunning \/ isLoadingData)
    /\ tasks["load"] = IdleTask
    /\ \E i \in 1..Min(NumLoads, Len(LoadCounts)) :
          Manage("load", "loadAdditionalData", LoadCounts[i])

\* The Data Scale select (disabled while a test runs).
SetDataScale ==
    /\ ~isRunning
    /\ \E v \in ScaleOptions(component) \ {dataScale} : dataScale' = v
    /\ UNCHANGED << component, isRunning, testResults, currentTest, comparison,
                    testType, logs, isLoadingData, isResettingDatabase, databaseStatus,
                    connectionStatus, db, inflight, tasks, trace, dbAtMerge, started,
                    ended, failures, reported, env, calc, io,
                    logEdits, managed, server, setup >>

\* The Test Type select of AdPerformanceDemo (disabled while a test runs).
SetTestType ==
    /\ component = AD
    /\ ~isRunning
    /\ \E v \in TestTypes \ {testType} : testType' = v
    /\ UNCHANGED << component, isRunning, testResults, currentTest, comparison,
                    dataScale, logs, isLoadingData, isResettingDatabase, databaseStatus,
                    connectionStatus, db, inflight, tasks, trace, dbAtMerge, started,
                    ended, failures, reported, env, calc, io,
                    logEdits, managed, server, setup >>

\* The Reset buttons of CustomerAnalytics: resetTestsOnly.
resetTestsOnly ==
    /\ component = CA
    /\ ~isRunning
    /\ testResults' = << >>
    /\ comparison' = null
    /\ logs' = << >>
    /\ currentTest' = ""
    /\ UNCHANGED << component, isRunning, dataScale, testType, isLoadingData,
                    isResettingDatabase, databaseStatus, connectionStatus, db, inflight,
                    tasks, trace, dbAtMerge, started, ended, failures, reported, env, calc, io,
                    logEdits, managed, server, setup >>

\* The Remove Last button of the Test Execution Log (CustomerAnalytics):
\* disabled={logs.length === 0}.
RemoveLastLog ==
    /\ component = CA
    /\ Len(logs) > 0
    /\ logEdits < env.edits
    /\ logEdits' = logEdits + 1
    /\ logs' = SubSeq(logs, 1, Len(logs) - 1)
    /\ UNCHANGED << component, isRunning, testResults, currentTest, comparison,
                    dataScale, testType, isLoadingData, isResettingDatabase,
                    databaseStatus, connectionStatus, db, inflight, tasks, trace,
                    dbAtMerge, started, ended, failures, reported, env, calc, io, managed,
                    server, setup >>

\* The Clear All button of the Test Execution Log (CustomerAnalytics):
\* setLogs([]); addLog('Execution logs cleared').
ClearAllLogs ==
    /\ component = CA
    /\ logEdits < env.edits
    /\ logEdits' = logEdits + 1
    /\ logs' = << Line("Execution logs cleared", "") >>
    /\ UNCHANGED << component, isRunning, testResults, currentTest, comparison,
                    dataScale, testType, isLoadingData, isResettingDatabase,
                    databaseStatus, connectionStatus, db, inflight, tasks, trace,
                    dbAtMerge, started, ended, failures, reported, env, calc, io, managed,
                    server, setup >>

\* The Clear button of the Execution Log (AdPerformanceDemo): setLogs([]).
ClearLog ==
    /\ component = AD
    /\ logEdits < env.edits
    /\ logEdits' = logEdits + 1
    /\ logs' = << >>
    /\ UNCHANGED << component, isRunning, testResults, currentTest, comparison,
                    dataScale, testType, isLoadingData, isResettingDatabase,
                    databaseStatus, connectionStatus, db, inflight, tasks, trace,
                    dbAtMerge, started, ended, failures, reported, env, calc, io, managed,
                    server, setup >>

(***************************************************************************)
(* The page after it has mounted: the mount effect has started             *)
(* checkDatabaseStatus (and checkConnection in AdPerformanceDemo).         *)
(***************************************************************************)
Unmounted ==
    [isRunning |-> FALSE, testResults |-> << >>, currentTest |-> "",
     comparison |-> null, dataScale |-> "1x", testType |-> "attribution",
     logs |-> << >>, isLoadingData |-> FALSE, isResettingDatabase |-> FALSE,
     databaseStatus |-> null, connectionStatus |-> "checking",
     db |-> InitialDatabase, inflight |-> {},
     tasks |-> [id \in {"test", "status", "connection", "manage", "load"} |-> IdleTask],
     trace |-> << >>, dbAtMerge |-> InitialDatabase, ended |-> 0,
     reported |-> NothingReported]

MountedOn(d) ==
    LET s1 == RunOn([Unmounted EXCEPT
                        !.db = d, !.dbAtMerge = d,
                        !.tasks["status"] =
                            NewTask("checkDatabaseStatus", "", "", FALSE)], "status")
    IN IF component = CA THEN s1
       ELSE RunOn([s1 EXCEPT !.tasks["connection"] =
                                 NewTask("checkConnection", "", "", FALSE)], "connection")

Mounted == MountedOn(InitialDatabase)

\* The page p, with the counters of the model at zero.
PageIs(p) ==
  \E v \in {p} :
    /\ isRunning = v.isRunning
    /\ testResults = v.testResults
    /\ currentTest = v.currentTest
    /\ comparison = v.comparison
    /\ dataScale = v.dataScale
    /\ testType = v.testType
    /\ logs = v.logs
    /\ isLoadingData = v.isLoadingData
    /\ isResettingDatabase = v.isResettingDatabase
    /\ databaseStatus = v.databaseStatus
    /\ connectionStatus = v.connectionStatus
    /\ db = v.db
    /\ inflight = v.inflight
    /\ tasks = v.tasks
    /\ trace = v.trace
    /\ dbAtMerge = v.dbAtMerge
    /\ ended = v.ended
    /\ reported = v.reported
    /\ started = 0
    /\ failures = 0

\* The request of handler id is answered with a result.
Answered(s, id) ==
    CHOOSE out \in {Resume(v, CHOOSE r \in v.inflight : r.owner = id,
                           "ok", 0, 0, 0, EmptyBag, {}) : v \in {s}} : TRUE

\* The page once the requests of the mount effects have been answered.
Settled ==
    IF component = CA THEN Answered(Answered(Mounted, "status"), "status")
    ELSE Answered(Answered(Mounted, "connection"), "status")

\* The same on the database d: a statement the engine cannot run is
\* answered with an error.
AnsweredBy(s, id) ==
    CHOOSE out \in
        UNION {{Resume(v, req, IF Executable(req.stmt, v.db) THEN "ok" ELSE "engine",
                       0, 0, 0, EmptyBag, {}) :
                   req \in {r \in v.inflight : r.owner = id}} : v \in {s}} : TRUE

SettledOn(d) ==
    IF component = CA THEN AnsweredBy(AnsweredBy(MountedOn(d), "status"), "status")
    ELSE AnsweredBy(AnsweredBy(MountedOn(d), "connection"), "status")

NoCalc == [merge |-> NoTestResult, traditional |-> NoTestResult, out |-> null]

NoExchange == null
NoProxy == null
NoSetup == null

\* What the environment does in a behaviour: the statistics and times the
\* responses report, how many requests may fail, how many test sequences the
\* operator starts, how many times a button of the log panel is clicked, and
\* the tables whose COUNT query may fail at the API server.
Environment(faults) ==
    [stats |-> {ReportedStat}, times |-> {ElapsedMs}, faults |-> faults,
     runs |-> MaxRuns, edits |-> 0, down |-> {}, ops |-> 0]

(***************************************************************************)
(* Spec: the page from its mount on, the mount effects' requests still in  *)
(* flight; any request may fail, up to MaxFailures of them.                *)
(***************************************************************************)
Init ==
    /\ component \in Components
    /\ PageIs(Mounted)
    /\ env = Environment(MaxFailures)
    /\ calc = NoCalc
    /\ io = NoExchange
    /\ logEdits = 0
    /\ managed = 0
    /\ server = NoProxy
    /\ setup = NoSetup

Next ==
    \/ Respond
    \/ RunPerformanceTest
    \/ SetDataScale
    \/ SetTestType
    \/ resetTestsOnly

Spec == Init /\ [][Next]_vars

(***************************************************************************)
(* SpecClean: as Spec, and no request fails.                               *)
(***************************************************************************)
InitClean ==
    /\ component \in Components
    /\ PageIs(Mounted)
    /\ env = Environment(0)
    /\ calc = NoCalc
    /\ io = NoExchange
    /\ logEdits = 0
    /\ managed = 0
    /\ server = NoProxy
    /\ setup = NoSetup

SpecClean == InitClean /\ [][Next]_vars

(***************************************************************************)
(* SpecSettled: the operator acts once the mount effects' requests have    *)
(* been answered, and leaves the data scale at its default; any request    *)
(* may fail, up to MaxFailures of them.                                    *)
(***************************************************************************)
InitSettled ==
    /\ component \in Components
    /\ PageIs(Settled)
    /\ env = Environment(MaxFailures)
    /\ calc = NoCalc
    /\ io = NoExchange
    /\ logEdits = 0
    /\ managed = 0
    /\ server = NoProxy
    /\ setup = NoSetup

NextSettled ==
    \/ Respond
    \/ RunPerformanceTest
    \/ SetTestType
    \/ resetTestsOnly

SpecSettled == InitSettled /\ [][NextSettled]_vars

(***************************************************************************)
(* SpecManage: one database-management operation on the settled page of   *)
(* CustomerAnalytics or AdPerformanceDemo, no test sequence; the tables    *)
(* exist with the initial rows or do not exist, the engine answers with    *)
(* named or with positional rows, and requests may fail, up to             *)
(* MaxFailures of them.                                                    *)
(***************************************************************************)
\* The database before the tables of the demo have been created.
NoTables ==
    [InitialDatabase EXCEPT !.customer_profiles = EmptyBag,
                            !.ad_performance = EmptyBag,
                            !.exists = {}]

\* The initial load as it stands in the table: customers 1..totalCustomers.
LoadedDatabase ==
    [InitialDatabase EXCEPT !.others = OtherRows(1, totalCustomers)]

InitManage ==
    /\ component \in Components
    /\ \E d \in {LoadedDatabase, NoTables}, compact \in BOOLEAN :
          PageIs(SettledOn([d EXCEPT !.compact = compact]))
    /\ env = [Environment(MaxFailures) EXCEPT !.runs = 0, !.ops = 1]
    /\ calc = NoCalc
    /\ io = NoExchange
    /\ logEdits = 0
    /\ managed = 0
    /\ server = NoProxy
    /\ setup = NoSetup

NextManage ==
    \/ Respond
    \/ RecreateTables
    \/ LoadInitialSampleData
    \/ FullDatabaseReset
    \/ LoadAdditionalData

SpecManage == InitManage /\ [][NextManage]_vars

(***************************************************************************)
(* SpecOverlap: one test sequence and one database-management operation    *)
(* on the settled page, started in either order, up to the first           *)
(* MaxAnswers answers to their statements; no request fails.               *)
(***************************************************************************)
RespondEarly ==
    /\ Len(trace) < 2 * MaxAnswers
    /\ Respond

InitOverlap ==
    /\ component \in Components
    /\ PageIs(SettledOn(LoadedDatabase))
    /\ env = [Environment(0) EXCEPT !.runs = 1, !.ops = 1]
    /\ calc = NoCalc
    /\ io = NoExchange
    /\ logEdits = 0
    /\ managed = 0
    /\ server = NoProxy
    /\ setup = NoSetup

NextOverlap ==
    \/ RespondEarly
    \/ RunPerformanceTest
    \/ RecreateTables
    \/ LoadInitialSampleData
    \/ FullDatabaseReset
    \/ LoadAdditionalData

SpecOverlap == InitOverlap /\ [][NextOverlap]_vars

(***************************************************************************)
(* SpecProxy: the proxy process on its own.  It receives NumRequests       *)
(* requests, POST /api/connect or POST /api/query; each runs up to its     *)
(* first await and on from there when the promise settles, so requests     *)
(* interleave at their awaits.  Up to MaxRefused connects fail.            *)
(***************************************************************************)
ProxyRequests == 1..NumRequests
RequestKinds == {"connect", "query"}
NoConnection == 0
IdleRequest == [pc |-> "idle", kind |-> "none", conn |-> NoConnection]
PageUnchanged ==
    UNCHANGED << component, isRunning, testResults, currentTest, comparison,
                 dataScale, testType, logs, isLoadingData, isResettingDatabase,
                 databaseStatus, connectionStatus, db, inflight, tasks, trace,
                 dbAtMerge, started, ended, failures, reported, env, calc, io,
                 logEdits, managed >>
InitialProxy ==
    [connection |-> NoConnection,    \* let connection = null
     opened |-> {},          \* connections established so far
     calls |-> 0,            \* calls of firebolt.connect so far
     refused |-> 0,
     requests |-> [r \in ProxyRequests |-> IdleRequest]]

\* getConnection has returned conn to request r: /api/connect answers,
\* executeQuery goes on to conn.execute(sql).
Obtained(p, r, conn) ==
    [p EXCEPT !.requests[r].conn = conn,
              !.requests[r].pc = IF p.requests[r].kind = "connect"
                                 THEN "done" ELSE "executing"]

\* getConnection up to its await.
getConnection(p, r) ==
    IF p.connection # NoConnection
    THEN Obtained(p, r, p.connection)
    ELSE [p EXCEPT !.calls = @ + 1, !.requests[r].pc = "connecting"]

\* Request r arrives at its route.
Arrive(r, kind) ==
    /\ server.requests[r].pc = "idle"
    /\ server' = getConnection([server EXCEPT !.requests[r].kind = kind], r)
    /\ PageUnchanged
    /\ UNCHANGED setup

\* firebolt.connect of request r settles: the connection it established is
\* assigned to the cache, or the rejection leaves getConnection at its await
\* and the route answers 500.
Connect(r, ok) ==
    /\ server.requests[r].pc = "connecting"
    /\ ~ok => server.refused < MaxRefused
    /\ server' = IF ok
                THEN Obtained([server EXCEPT !.connection = r,
                                            !.opened = @ \cup {r}], r, r)
                ELSE [server EXCEPT !.refused = @ + 1,
                                   !.requests[r].pc = "failed"]
    /\ PageUnchanged
    /\ UNCHANGED setup

\* conn.execute and fetchResult of request r settle.
ExecuteQuery(r, ok) ==
    /\ server.requests[r].pc = "executing"
    /\ server' = [server EXCEPT !.requests[r].pc = IF ok THEN "done" ELSE "failed"]
    /\ PageUnchanged
    /\ UNCHANGED setup

InitProxy ==
    /\ component \in Components
    /\ PageIs(Mounted)
    /\ env = Environment(0)
    /\ calc = NoCalc
    /\ io = NoExchange
    /\ logEdits = 0
    /\ managed = 0
    /\ server = InitialProxy
    /\ setup = NoSetup

NextProxy ==
    \/ \E r \in ProxyRequests, kind \in RequestKinds : Arrive(r, kind)
    \/ \E r \in ProxyRequests, ok \in BOOLEAN : Connect(r, ok)
    \/ \E r \in ProxyRequests, ok \in BOOLEAN : ExecuteQuery(r, ok)

SpecProxy == InitProxy /\ [][NextProxy]_vars

(***************************************************************************)
(* SpecSetup: the connection setup page (FireboltSetup) on its own.  Its   *)
(* mount effect checks the server; the operator starts up to MaxTests      *)
(* connection tests.  Each of the requests of a test is answered by the    *)
(* server, by something else in its place, or not at all.                  *)
(***************************************************************************)
InitialSetup ==
    [serverStatus |-> "checking", hasCredentials |-> FALSE,
     isConnecting |-> FALSE, connectionStatus |-> "idle", logs |-> << >>,
     pc |-> "idle", tests |-> 0]

\* What a request of the page may come back with: fetch rejects or the body
\* is not JSON ("rejected"), or a JSON body.
HealthAnswers ==
    {[kind |-> "rejected", status |-> "", hasCredentials |-> FALSE]} \cup
    {[kind |-> "json", status |-> st, hasCredentials |-> cr] :
        st \in {"ok", ""}, cr \in BOOLEAN}
ApiAnswers ==
    {[kind |-> "rejected", success |-> FALSE, detail |-> FALSE]} \cup
    {[kind |-> "json", success |-> su, detail |-> de] : su \in BOOLEAN, de \in BOOLEAN}

\* addLog of the setup page
addLogs(st, texts) ==
    [st EXCEPT !.logs = @ \o [i \in 1..Len(texts) |-> [text |-> texts[i], arg |-> ""]]]

\* catch (error) { addLog(`Connection failed: ...`); setConnectionStatus('error') }
\* finally { setIsConnecting(false) }
testCatch(st, message) ==
    [st EXCEPT !.logs = Append(@, [text |-> "Connection failed", arg |-> message]),
               !.connectionStatus = "error",
               !.isConnecting = FALSE,
               !.pc = "idle"]

\* The mount effect: checkServer.
checkServer ==
    /\ setup.serverStatus = "checking"
    /\ \E answer \in HealthAnswers :
          setup' = IF answer.kind = "json" /\ answer.status = "ok"
                   THEN [setup EXCEPT !.serverStatus = "running",
                                      !.hasCredentials = answer.hasCredentials]
                   ELSE [setup EXCEPT !.serverStatus = "stopped"]
    /\ PageUnchanged
    /\ UNCHANGED server

\* The Test Connection button: testConnection up to its first await.
testConnection ==
    /\ ~(setup.isConnecting \/ setup.serverStatus # "running")
    /\ setup.tests < MaxTests
    /\ setup' = addLogs([setup EXCEPT !.isConnecting = TRUE, !.logs = << >>,
                                      !.pc = "health", !.tests = @ + 1],
                        << "Initializing connection test to Firebolt Cloud",
                           "Checking API server status" >>)
    /\ PageUnchanged
    /\ UNCHANGED server

\* testConnection from the answer to /api/health up to its next await.
HealthAnswered ==
    /\ setup.pc = "health"
    /\ \E answer \in HealthAnswers :
          setup' =
            IF answer.kind = "rejected" THEN testCatch(setup, "rejected")
            ELSE IF answer.status # "ok"
            THEN testCatch(setup, "API server not responding correctly")
            ELSE IF ~answer.hasCredentials
            THEN testCatch(addLogs(setup, << "API server is running", "Account",
                                            "Database", "Engine" >>),
                           "Service account credentials not configured")
            ELSE addLogs([setup EXCEPT !.pc = "connect"],
                         << "API server is running", "Account", "Database", "Engine",
                            "Credentials detected", "Testing database connection" >>)
    /\ PageUnchanged
    /\ UNCHANGED server

\* testConnection from the answer to /api/connect up to its next await.
ConnectAnswered ==
    /\ setup.pc = "connect"
    /\ \E answer \in ApiAnswers :
          setup' =
            IF answer.kind = "rejected" THEN testCatch(setup, "rejected")
            ELSE IF ~answer.success
            THEN testCatch(setup, IF answer.detail THEN "error" ELSE "Connection failed")
            ELSE addLogs([setup EXCEPT !.pc = "query"],
                         << "Connected to engine", "Engine URL", "Executing test query" >>)
    /\ PageUnchanged
    /\ UNCHANGED server

\* testConnection from the answer to /api/query to its end.
QueryAnswered ==
    /\ setup.pc = "query"
    /\ \E answer \in ApiAnswers :
          setup' =
            IF answer.kind = "rejected" THEN testCatch(setup, "rejected")
            ELSE IF ~answer.success
            THEN testCatch(setup, IF answer.detail THEN "error" ELSE "Query failed")
            ELSE [addLogs(setup, << "Test query executed successfully",
                                   IF answer.detail THEN "Execution time"
                                   ELSE "Execution time: N/A",
                                   "Connection test completed successfully" >>)
                    EXCEPT !.connectionStatus = "success",
                           !.isConnecting = FALSE,
                           !.pc = "idle"]
    /\ PageUnchanged
    /\ UNCHANGED server

InitSetup ==
    /\ component \in Components
    /\ PageIs(Mounted)
    /\ env = Environment(0)
    /\ calc = NoCalc
    /\ io = NoExchange
    /\ logEdits = 0
    /\ managed = 0
    /\ server = NoProxy
    /\ setup = InitialSetup

NextSetup ==
    \/ checkServer
    \/ testConnection
    \/ HealthAnswered
    \/ ConnectAnswered
    \/ QueryAnswered

SpecSetup == InitSetup /\ [][NextSetup]_vars

(***************************************************************************)
(* The log panel: one test sequence on the settled page, in which one      *)
(* request may fail, with the buttons of the log panel.                    *)
(***************************************************************************)
InitLog ==
    /\ component \in Components
    /\ \E type \in (IF component = AD THEN TestTypes ELSE {"attribution"}) :
          PageIs([Settled EXCEPT !.testType = type])
    /\ env = [Environment(MaxFailures) EXCEPT !.runs = 1, !.edits = MaxLogEdits]
    /\ calc = NoCalc
    /\ io = NoExchange
    /\ logEdits = 0
    /\ managed = 0
    /\ server = NoProxy
    /\ setup = NoSetup

NextLog ==
    \/ Respond
    \/ RunPerformanceTest
    \/ RemoveLastLog
    \/ ClearAllLogs
    \/ ClearLog

SpecLog == InitLog /\ [][NextLog]_vars

(***************************************************************************)
(* The status check: the page from its mount, or settled, one test         *)
(* sequence, one failure, which may be that of a COUNT query at the API    *)
(* server.                                                                 *)
(***************************************************************************)
InitStatus ==
    /\ component \in Components
    /\ \E page \in {Mounted, Settled} :
         \E type \in (IF component = AD THEN TestTypes ELSE {"attribution"}) :
            PageIs([page EXCEPT !.testType = type])
    /\ env = [Environment(MaxFailures) EXCEPT !.runs = 1, !.down = AdTables]
    /\ calc = NoCalc
    /\ io = NoExchange
    /\ logEdits = 0
    /\ managed = 0
    /\ server = NoProxy
    /\ setup = NoSetup

NextStatus ==
    \/ Respond
    \/ RunPerformanceTest

SpecStatus == InitStatus /\ [][NextStatus]_vars

(***************************************************************************)
(* Termination: the settled page, one test sequence, one click on a button *)
(* of the log panel, and the controls of the operator that are enabled     *)
(* while a test runs or that write the test's state (the selects are       *)
(* disabled while a test runs and are left out; the test type is drawn in  *)
(* the initial state).  Only the                                           *)
(* test sequence has requests in flight, and every request is answered at  *)
(* some time, with a result or an error: weak fairness of Respond.         *)
(***************************************************************************)
InitLive ==
    /\ component \in Components
    /\ \E type \in (IF component = AD THEN TestTypes ELSE {"attribution"}) :
          PageIs([Settled EXCEPT !.testType = type])
    /\ env = [Environment(MaxFailures) EXCEPT !.runs = 1, !.edits = 1]
    /\ calc = NoCalc
    /\ io = NoExchange
    /\ logEdits = 0
    /\ managed = 0
    /\ server = NoProxy
    /\ setup = NoSetup

NextLive ==
    \/ Respond
    \/ RunPerformanceTest
    \/ resetTestsOnly
    \/ RemoveLastLog
    \/ ClearAllLogs
    \/ ClearLog

SpecLive == InitLive /\ [][NextLive]_vars /\ WF_vars(Respond)

(***************************************************************************)
(* SpecStats: the operator starts one test sequence, of either test type,  *)
(* once the mount effects' requests have been answered; no request fails,  *)
(* and every response to a query reports each of rows_read and bytes_read  *)
(* as absent or as a value in 0..MaxStat.                                  *)
(***************************************************************************)
StatValues == {absent} \cup 0..MaxStat

InitStats ==
    /\ component \in Components
    /\ \E type \in (IF component = AD THEN TestTypes ELSE {"attribution"}) :
          PageIs([Settled EXCEPT !.testType = type])
    /\ env = [Environment(0) EXCEPT !.stats = StatValues, !.runs = 1]
    /\ calc = NoCalc
    /\ io = NoExchange
    /\ logEdits = 0
    /\ managed = 0
    /\ server = NoProxy
    /\ setup = NoSetup

NextStats ==
    \/ Respond
    \/ RunPerformanceTest

SpecStats == InitStats /\ [][NextStats]_vars

(***************************************************************************)
(* SpecTimes: as SpecStats, with fixed statistics; Date.now() - startTime  *)
(* of each of the two tests is any value in 0..MaxElapsed milliseconds.    *)
(***************************************************************************)
InitTimes ==
    /\ component \in Components
    /\ \E type \in (IF component = AD THEN TestTypes ELSE {"attribution"}) :
          PageIs([Settled EXCEPT !.testType = type])
    /\ env = [Environment(0) EXCEPT !.times = 0..MaxElapsed, !.runs = 1]
    /\ calc = NoCalc
    /\ io = NoExchange
    /\ logEdits = 0
    /\ managed = 0
    /\ server = NoProxy
    /\ setup = NoSetup

NextTimes ==
    \/ Respond
    \/ RunPerformanceTest

SpecTimes == InitTimes /\ [][NextTimes]_vars

(***************************************************************************)
(* SpecCalc: calculateComparison on its own, applied to every pair of      *)
(* results with times, rows and bytes in 0..MaxCalc.                       *)
(***************************************************************************)
CalcValues == 0..MaxCalc

CalcResult(approach, ops, time, rows, bytes) ==
    [NoTestResult EXCEPT !.approach = approach, !.operationCount = ops,
                         !.executionTime = time, !.rowsProcessed = rows,
                         !.bytesScanned = bytes, !.scale = "1x"]

InitCalc ==
    /\ component \in Components
    /\ PageIs(Mounted)
    /\ env = Environment(0)
    /\ \E mt, mr, mb, tt, tr, tb \in CalcValues :
          calc = [merge |-> CalcResult("MERGE", 1, mt, mr, mb),
                  traditional |-> CalcResult("TRADITIONAL", 5, tt, tr, tb),
                  out |-> null]
    /\ io = NoExchange
    /\ logEdits = 0
    /\ managed = 0
    /\ server = NoProxy
    /\ setup = NoSetup

Calculate ==
    /\ calc.out = null
    /\ calc' = [calc EXCEPT !.out = calculateComparison(component, calc.merge,
                                                        calc.traditional)]
    /\ UNCHANGED << component, isRunning, testResults, currentTest, comparison,
                    dataScale, testType, logs, isLoadingData, isResettingDatabase,
                    databaseStatus, connectionStatus, db, inflight, tasks, trace,
                    dbAtMerge, started, ended, failures, reported, env, io, logEdits, managed,
                    server, setup >>

NextCalc == Calculate

SpecCalc == InitCalc /\ [][NextCalc]_vars

(***************************************************************************)
(* SpecSeed: what setupTestData derives from the data scale, on its own,   *)
(* for two scales of CustomerAnalytics or of its earlier version (1x, 3x,  *)
(* 9x) and a customer_profiles table that holds the customers 1..n of the  *)
(* initial load and of up to MaxLoads additional loads.                    *)
(***************************************************************************)
Earlier == "CustomerAnalytics (earlier version)"

\* const multiplier = scale === '1x' ? 1 : scale === '3x' ? 3 : 9;
\* const baseRows = Math.min(5000, 5000 * multiplier);
multiplier_Earlier(scale) == IF scale = "1x" THEN 1 ELSE IF scale = "3x" THEN 3 ELSE 9
baseRows_Earlier(scale) == Min(5000, 5000 * multiplier_Earlier(scale))

\* The rows the INSERT INTO customer_changes ... SELECT ... FROM
\* customer_profiles WHERE customer_id <= changesRows stages when the table
\* holds the customers 1..customers.
Staged(customers, rows) == Cardinality({id \in 1..customers : id <= rows})

\* setupTestData(scale): multiplier, baseRows, changesRows and the rows staged.
SeedOf(version, scale, customers) ==
    LET multiplier == IF version = CA THEN getMultiplier_CA(scale)
                      ELSE multiplier_Earlier(scale)
        rows == IF version = CA THEN 1000 * multiplier ELSE baseRows_Earlier(scale)
    IN [multiplier |-> multiplier, baseRows |-> rows,
        changesRows |-> (rows * 3) \div 10,
        staged |-> Staged(customers, (rows * 3) \div 10)]

ScalesOf(version) ==
    IF version = CA THEN {ScaleList(CA)[i] : i \in 1..Len(ScaleList(CA))}
    ELSE {"1x", "3x", "9x"}

InitSeed ==
    /\ component = CA
    /\ PageIs(Mounted)
    /\ env = Environment(0)
    /\ \E version \in {CA, Earlier} :
          \E a, b \in ScalesOf(version), loads \in 0..MaxLoads :
             calc = [version |-> version, a |-> a, b |-> b,
                     customers |-> totalCustomers + loads * LoadCounts[1],
                     out |-> null]
    /\ io = NoExchange
    /\ logEdits = 0
    /\ managed = 0
    /\ server = NoProxy
    /\ setup = NoSetup

SetupTestData ==
    /\ calc.out = null
    /\ calc' = [calc EXCEPT !.out = [a |-> SeedOf(calc.version, calc.a, calc.customers),
                                     b |-> SeedOf(calc.version, calc.b, calc.customers)]]
    /\ UNCHANGED << component, isRunning, testResults, currentTest, comparison,
                    dataScale, testType, logs, isLoadingData, isResettingDatabase,
                    databaseStatus, connectionStatus, db, inflight, tasks, trace,
                    dbAtMerge, started, ended, failures, reported, env, io, logEdits, managed,
                    server, setup >>

NextSeed == SetupTestData

SpecSeed == InitSeed /\ [][NextSeed]_vars

(***************************************************************************)
(* One HTTP exchange on its own.  Its inputs are drawn in the initial      *)
(* state: whether the request carries SQL, what the engine makes of the    *)
(* statement, and what reaches the browser ("delivered": the endpoint's    *)
(* response, "rejected": fetch rejects, "gateway" / "page": a non-2xx /    *)
(* 2xx response that is not the endpoint's).  The endpoint answers, then   *)
(* the executor handles the response.                                      *)
(***************************************************************************)
\* A result has up to two columns, named from ColumnNames (two columns may
\* bear the same name, as in SELECT x AS a, y AS a), and its cells hold
\* CellValues.
ColumnNames == {"a", "b"}
CellValues == {0, 1}
Transports == {"delivered", "rejected", "gateway", "page"}

SeqsUpTo(S, n) == UNION {[1..k -> S] : k \in 0..n}

EngineOutcomes ==
    {EngineError("error")} \cup
    UNION {{EngineResult(meta, data, rowsRead, bytesRead) :
                data \in SeqsUpTo([1..Len(meta) -> CellValues], MaxResultRows),
                rowsRead \in StatValues, bytesRead \in StatValues} :
           meta \in SeqsUpTo(ColumnNames, Cardinality(ColumnNames))}

InitExchange ==
    /\ component \in Components
    /\ PageIs(Mounted)
    /\ env = Environment(0)
    /\ calc = NoCalc
    /\ logEdits = 0
    /\ managed = 0
    /\ server = NoProxy
    /\ setup = NoSetup
    /\ \E transport \in Transports, sql \in BOOLEAN, errorAsStatus \in BOOLEAN :
         \E engine \in (IF transport = "delivered" /\ sql
                        THEN EngineOutcomes ELSE {EngineError("error")}) :
           \* executeFireboltQuery always sends a statement; only the engine's
           \* endpoint reports an error by status
           /\ component = CA => sql
           /\ errorAsStatus => component = CA /\ transport = "delivered"
                                 /\ engine.kind = "error"
           /\ io = [sql |-> sql, engine |-> engine, transport |-> transport,
                    errorAsStatus |-> errorAsStatus, elapsed |-> ElapsedMs,
                    proxy |-> null, response |-> null, out |-> null]

\* The request is answered (or fails).
Answer ==
    /\ io.response = null
    /\ LET proxy == IF component = AD /\ io.transport = "delivered"
                    THEN apiQuery(io.sql, io.engine, io.elapsed) ELSE null
           response ==
               CASE io.transport = "rejected" -> FetchRejected
                 [] io.transport = "gateway" -> NotFromEndpoint(FALSE)
                 [] io.transport = "page" -> NotFromEndpoint(TRUE)
                 [] io.transport = "delivered" /\ component = CA ->
                      CoreResponse(io.engine, io.errorAsStatus)
                 [] io.transport = "delivered" /\ component = AD -> AsResponse(proxy)
       IN io' = [io EXCEPT !.proxy = proxy, !.response = response]
    /\ UNCHANGED << component, isRunning, testResults, currentTest, comparison,
                    dataScale, testType, logs, isLoadingData, isResettingDatabase,
                    databaseStatus, connectionStatus, db, inflight, tasks, trace,
                    dbAtMerge, started, ended, failures, reported, env, calc, logEdits, managed,
                    server, setup >>

\* The executor runs on from its await fetch(...).
Execute ==
    /\ io.response # null
    /\ io.out = null
    /\ io' = [io EXCEPT !.out = Executor(component, io.response)]
    /\ UNCHANGED << component, isRunning, testResults, currentTest, comparison,
                    dataScale, testType, logs, isLoadingData, isResettingDatabase,
                    databaseStatus, connectionStatus, db, inflight, tasks, trace,
                    dbAtMerge, started, ended, failures, reported, env, calc, logEdits, managed,
                    server, setup >>

NextExchange ==
    \/ Answer
    \/ Execute

SpecExchange == InitExchange /\ [][NextExchange]_vars

(***************************************************************************)
(* Properties.  The statements of a test sequence, as the claims name      *)
(* them, and what the trace of a sequence says.                            *)
(***************************************************************************)
SeedOrder(c, type) ==
    IF c = CA
    THEN << Stmt("DELETE FROM customer_changes"), Stmt("INSERT INTO customer_changes") >>
    ELSE IF type = "fraud"
    THEN << Stmt("DELETE FROM detected_fraud"), Stmt("INSERT INTO detected_fraud") >>
    ELSE << Stmt("DELETE FROM attribution_updates"),
            Stmt("INSERT INTO attribution_updates (existing clicks)"),
            Stmt("INSERT INTO attribution_updates (new clicks)") >>

MergeOf(c, type) ==
    IF c = CA THEN Stmt("MERGE INTO customer_profiles")
    ELSE IF type = "fraud" THEN Stmt("MERGE INTO ad_performance (fraud)")
    ELSE Stmt("MERGE INTO ad_performance (attribution)")

TraditionalOrder(c, type) ==
    IF c = CA
    THEN << Stmt("DELETE FROM customer_profiles"),
            Stmt("UPDATE customer_profiles (enterprise)"),
            Stmt("UPDATE customer_profiles (medium value)"),
            Stmt("UPDATE customer_profiles (remaining)"),
            Stmt("INSERT INTO customer_profiles") >>
    ELSE IF type = "fraud"
    THEN << Stmt("SELECT fraudulent clicks"), Stmt("DELETE FROM ad_performance") >>
    ELSE << Stmt("UPDATE ad_performance"),
            Stmt("SELECT COUNT(*) new clicks"),
            Stmt("INSERT INTO ad_performance (new clicks)") >>

StatusCounts ==
    << Stmt("SELECT COUNT(*) FROM customer_profiles"),
       Stmt("SELECT COUNT(*) FROM customer_changes") >>

ReloadOrder == [b \in 1..(baseRows \div batchSize) |-> BatchStmt(b - 1)]

\* seed, MERGE, seed, traditional 1..N
ClaimedOrder(c, type) ==
    SeedOrder(c, type) \o << MergeOf(c, type) >> \o SeedOrder(c, type)
      \o TraditionalOrder(c, type)

\* the same with the status counts that follow each seed of CustomerAnalytics
\* and the reload that follows the MERGE of the fraud test
FullOrder(c, type) ==
    IF c = CA
    THEN SeedOrder(c, type) \o StatusCounts \o << MergeOf(c, type) >>
           \o SeedOrder(c, type) \o StatusCounts \o TraditionalOrder(c, type)
    ELSE IF type = "fraud"
    THEN SeedOrder(c, type) \o << MergeOf(c, type) >> \o ReloadOrder
           \o SeedOrder(c, type) \o TraditionalOrder(c, type)
    ELSE ClaimedOrder(c, type)

Range(seq) == {seq[i] : i \in 1..Len(seq)}
IsPrefix(a, b) == Len(a) <= Len(b) /\ \A i \in 1..Len(a) : a[i] = b[i]
StmtsOf(events) == [i \in 1..Len(events) |-> events[i].stmt]
IssuedIn(tr) == StmtsOf(SelectSeq(tr, LAMBDA e : e.ev = "issue"))
CompletedIn(tr) == StmtsOf(SelectSeq(tr, LAMBDA e : e.ev = "ok"))
NoFailureIn(tr) == \A i \in 1..Len(tr) : tr[i].ev # "fail"
LastFailed(tr) == Len(tr) > 0 /\ tr[Len(tr)].ev = "fail"
TestInFlight == {r \in inflight : r.owner = "test"}

\* Every statement is issued after the one before it has been answered.
OneAtATime(tr) ==
    \A i \in 1..Len(tr) :
       IF i % 2 = 1 THEN tr[i].ev = "issue"
       ELSE tr[i].ev \in {"ok", "fail"} /\ tr[i].stmt = tr[i - 1].stmt

\* A traditional statement is issued after the MERGE has completed.
TraditionalAfterMerge(tr, c, type) ==
    \A i \in 1..Len(tr) :
       (tr[i].ev = "issue" /\ tr[i].stmt \in Range(TraditionalOrder(c, type)))
          => \E j \in 1..(i - 1) : tr[j].ev = "ok" /\ tr[j].stmt = MergeOf(c, type)

\* While a sequence runs: one statement at a time, the traditional ones
\* after the MERGE and, as long as none has failed, a prefix of order.
RunsInOrder(order) ==
    isRunning =>
       /\ OneAtATime(trace)
       /\ TraditionalAfterMerge(trace, component, tasks["test"].type)
       /\ NoFailureIn(trace) => IsPrefix(IssuedIn(trace), order)

\* The step that ends a sequence with no failure: all of order was issued.
EndsInOrder(order) ==
    (isRunning /\ ~isRunning' /\ NoFailureIn(trace'))
       => /\ OneAtATime(trace')
          /\ IssuedIn(trace') = order

Target(c, type) == IF c = CA THEN "customer_profiles" ELSE "ad_performance"
Staging(c, type) ==
    IF c = CA THEN "customer_changes"
    ELSE IF type = "fraud" THEN "detected_fraud" ELSE "attribution_updates"

\* C2: when the traditional run issues its first statement, the target table
\* and the staging table hold what they held when the MERGE statement of
\* the same sequence was issued.
C2_IdenticalInput ==
    \A r \in TestInFlight :
       LET type == tasks["test"].type
       IN r.stmt = TraditionalOrder(component, type)[1]
            => /\ db[Target(component, type)] = dbAtMerge[Target(component, type)]
               /\ db[Staging(component, type)] = dbAtMerge[Staging(component, type)]

\* C3: once a query of a test sequence has failed, the sequence issues no
\* further statement.
C3_FailureIsFatal ==
    \A i \in 1..Len(trace) :
       trace[i].ev = "fail" => \A j \in (i + 1)..Len(trace) : trace[j].ev # "issue"

LogsFailure(lines, msg) ==
    \E i \in 1..Len(lines) : lines[i] = Line("Test failed", msg)

\* The 3rd statement of trad has failed, and nothing before it.
ThirdFailed(tr, trad) ==
    /\ Len(trad) >= 3
    /\ \E i \in 1..Len(tr) :
          /\ tr[i].ev = "fail"
          /\ tr[i].stmt = trad[3]
          /\ NoFailureIn(SubSeq(tr, 1, i - 1))

\* C4: when the 3rd traditional statement fails and everything before it
\* succeeded, the step that handles the failure leaves exactly traditional
\* statements 1 and 2 completed and no later one issued, the sequence ended
\* (isRunning false, nothing of it in flight) with the failure logged,
\* testResults holding the MERGE result alone, and comparison null.
C4_ThirdTraditionalFails ==
    [][LET trad == TraditionalOrder(component, tasks["test"].type)
       IN (isRunning /\ ~ThirdFailed(trace, trad) /\ ThirdFailed(trace', trad))
            => /\ SelectSeq(CompletedIn(trace'), LAMBDA q : q \in Range(trad))
                    = << trad[1], trad[2] >>
               /\ \A k \in 4..Len(trad) : trad[k] \notin Range(IssuedIn(trace'))
               /\ LastFailed(trace')
               /\ ~isRunning'
               /\ tasks'["test"] = IdleTask
               /\ {r \in inflight' : r.owner = "test"} = {}
               /\ LogsFailure(logs', trace'[Len(trace')].msg)
               /\ Len(testResults') = 1
               /\ testResults'[1].approach = "MERGE"
               /\ comparison' = null]_vars

C4_Witness ==
    /\ component = CA
    /\ ThirdFailed(trace, TraditionalOrder(CA, ""))
    /\ LastFailed(trace)
    /\ ~isRunning
    /\ LogsFailure(logs, trace[Len(trace)].msg)
    /\ Len(testResults) = 1
    /\ comparison = null

\* A sequence has ended in failure and no new one has begun.
SequenceFailed == tasks["test"] = IdleTask /\ LastFailed(trace)

\* C5: the step in which a test sequence fails leaves isRunning false,
\* currentTest empty and a 'Test failed' line with the failure's message in
\* the log; from then until the next sequence starts the page is idle and
\* Start is enabled, and a runPerformanceTest invocation then starts a new
\* sequence.
C5_FailedIsIdle ==
    /\ [](SequenceFailed =>
            /\ ~isRunning
            /\ currentTest = ""
            /\ TestInFlight = {}
            /\ StartButtonEnabled
            /\ ~AlreadyRunning)
    /\ [][(ended' = ended + 1 /\ LastFailed(trace'))
             => /\ ~isRunning'
                /\ currentTest' = ""
                /\ trace'[Len(trace')].msg # ""
                /\ LogsFailure(logs', trace'[Len(trace')].msg)]_vars
    /\ [][(SequenceFailed /\ started' # started)
             => /\ isRunning'
                /\ tasks'["test"].prog = "runPerformanceTest"
                /\ logs'[1] = Line("Starting Customer Analytics MERGE Performance Test", "")
                     \/ logs'[1] = Line("Starting MERGE Performance Test", "")
                /\ Len(trace') = 1
                /\ trace'[1].ev = "issue"]_vars

C5_Witness ==
    /\ SequenceFailed
    /\ LogsFailure(logs, trace[Len(trace)].msg)
    /\ ~isRunning
    /\ started < MaxRuns

\* C6: at most one test sequence is in progress, a sequence starts only
\* while none is running, and while one is running a step that is not the
\* answer to a request (a runPerformanceTest invocation) changes nothing.
C6_OneSequence ==
    /\ [](/\ started - ended = (IF isRunning THEN 1 ELSE 0)
          /\ Cardinality(TestInFlight) <= 1
          /\ isRunning <=> tasks["test"] # IdleTask)
    /\ [][/\ isRunning => started' = started
          /\ (isRunning /\ inflight' = inflight) => UNCHANGED vars]_vars

C6_Witness ==
    /\ isRunning
    /\ AlreadyRunning
    /\ started = MaxRuns
    /\ Len(testResults) = 1
    /\ TestInFlight # {}

\* The requests that carry a SQL query.
QueriesInFlight == {r \in inflight : r.stmt.sql \notin {"/api/status", "/api/health"}}

\* C7: at most one query is in flight at any moment.
C7_OneQueryInFlight == Cardinality(QueriesInFlight) <= 1

\* C8: calculateComparison gives efficiencyGain = 0 when the traditional
\* rowsProcessed is 0 and ioReduction = 0 when the traditional bytesScanned
\* is 0, in both components.
C8_ZeroGuards ==
    calc.out # null =>
       /\ calc.traditional.rowsProcessed = 0 => calc.out.efficiencyGain = Finite(0)
       /\ calc.traditional.bytesScanned = 0 => calc.out.ioReduction = Finite(0)

\* x is (t - m) / t * 100 rounded to 2 decimals: x is finite and its
\* hundredths are within half a hundredth of 10000 * (t - m) / t.
IsRoundedPercent(x, m, t) ==
    /\ x.kind = "finite"
    /\ 2 * (x.hundredths * t - 10000 * (t - m)) <= t
    /\ 2 * (x.hundredths * t - 10000 * (t - m)) > 0 - t

\* C9: for traditional.executionTime > 0, timeImprovement is
\* (traditional.executionTime - merge.executionTime) /
\* traditional.executionTime * 100 rounded to 2 decimals.
C9_TimeImprovement ==
    (calc.out # null /\ calc.traditional.executionTime > 0)
       => IsRoundedPercent(calc.out.timeImprovement, calc.merge.executionTime,
                           calc.traditional.executionTime)

C9_Witness ==
    /\ calc.out # null
    /\ calc.merge.executionTime = 1
    /\ calc.traditional.executionTime = 3
    /\ calc.out.timeImprovement = Finite(6667)

IsNegative(x) ==
    \/ x.kind = "finite" /\ x.hundredths < 0
    \/ x.kind = "-Infinity"

Fields ==
    { << "timeImprovement", "executionTime" >>,
      << "efficiencyGain", "rowsProcessed" >>,
      << "ioReduction", "bytesScanned" >> }

\* C10 (as amended): when the MERGE value is larger than the traditional
\* value and the traditional value is greater than 0, the field of the
\* comparison is negative and is what the formula gives, rounded to 2
\* decimals; in both components.
C10_SignedWhenWorse ==
    calc.out # null =>
       \A f \in Fields :
          (calc.traditional[f[2]] > 0 /\ calc.merge[f[2]] > calc.traditional[f[2]])
             => /\ IsNegative(calc.out[f[1]])
                /\ IsRoundedPercent(calc.out[f[1]], calc.merge[f[2]],
                                    calc.traditional[f[2]])

\* C10 as stated: whenever the MERGE value is larger than the traditional
\* value, the field is negative.
C10_NegativeWhenWorse ==
    calc.out # null =>
       \A f \in Fields :
          calc.merge[f[2]] > calc.traditional[f[2]] => IsNegative(calc.out[f[1]])

C10_Witness ==
    /\ component = AD
    /\ calc.out # null
    /\ calc.merge.rowsProcessed = 3
    /\ calc.traditional.rowsProcessed = 2
    /\ calc.out.efficiencyGain = Finite(0 - 5000)

\* C11 (as amended): the traditional TestResult's rowsProcessed is the sum of
\* rows_read over the traditional statements of the run, and its bytesScanned
\* is the sum of their bytes_read when every one of them reported a non-zero
\* bytes_read (in AdPerformanceDemo: always); nothing that a seed, status or
\* MERGE statement reported is in these totals.
C11_TraditionalTotals ==
    Len(testResults) = 2 =>
       /\ testResults[2].rowsProcessed = reported.rows
       /\ (component = AD \/ ~reported.noBytes)
             => testResults[2].bytesScanned = reported.bytes

\* C11 as stated: the totals are the sums whenever every traditional
\* statement reported both statistics.
C11_SumsWhenReported ==
    (Len(testResults) = 2 /\ ~reported.missing) =>
       /\ testResults[2].rowsProcessed = reported.rows
       /\ testResults[2].bytesScanned = reported.bytes

C11_Witness ==
    /\ component = CA
    /\ Len(testResults) = 2
    /\ ~reported.noBytes
    /\ reported.other
    /\ OrZero(reported.merge.rows_read) > 0
    /\ OrZero(reported.merge.bytes_read) > 0
    /\ reported.rows = 3
    /\ reported.bytes = 5
    /\ testResults[2].rowsProcessed = 3
    /\ testResults[2].bytesScanned = reported.bytes

\* C12: in CustomerAnalytics the traditional bytesScanned is the sum of the
\* reported bytes_read plus 256 bytes for every row read by a traditional
\* statement that reported no or zero bytes_read, and the MERGE result holds
\* the reported rows_read and bytes_read, or 0 where there is none, with no
\* estimate.
C12_BytesFallback ==
    component = CA =>
       /\ Len(testResults) = 2
             => testResults[2].bytesScanned
                   = reported.bytes + estimatedBytesPerRow * reported.unmeasuredRows
       /\ Len(testResults) >= 1
             => /\ testResults[1].bytesScanned = OrZero(reported.merge.bytes_read)
                /\ testResults[1].rowsProcessed = OrZero(reported.merge.rows_read)

C12_Witness ==
    /\ component = CA
    /\ Len(testResults) = 2
    /\ reported.missing
    /\ reported.unmeasuredRows = 2
    /\ reported.bytes = 1
    /\ testResults[2].bytesScanned = 2 * estimatedBytesPerRow + 1
    /\ reported.merge.rows_read = MaxStat
    /\ reported.merge.bytes_read = absent
    /\ testResults[1].bytesScanned = 0

\* The test type of the sequence the trace is of.
TypeOfRun ==
    IF component = CA THEN ""
    ELSE IF Stmt("DELETE FROM detected_fraud") \in Range(IssuedIn(trace))
    THEN "fraud" ELSE "attribution"

\* C13: the simplificationFactor of a completed run is the number of
\* traditional statements of the run over the one MERGE statement, as a
\* plain ratio: 5 in CustomerAnalytics, 3 for an attribution run and 2 for a
\* fraud run; it is traditional.operationCount / merge.operationCount of the
\* two results of the run.
C13_SimplificationFactor ==
    comparison # null =>
       /\ comparison.simplificationFactor
             = Finite(100 * Len(TraditionalOrder(component, TypeOfRun)))
       /\ comparison.simplificationFactor
             = (IF component = CA THEN Finite(500)
                ELSE IF TypeOfRun = "fraud" THEN Finite(200) ELSE Finite(300))
       /\ Len(testResults) = 2
       /\ comparison.simplificationFactor.hundredths * testResults[1].operationCount
             = 100 * testResults[2].operationCount

C13_Witness ==
    /\ component = AD
    /\ TypeOfRun = "fraud"
    /\ ~isRunning
    /\ Len(testResults) = 2
    /\ testResults[1].operationCount = 1
    /\ testResults[2].operationCount = 2
    /\ comparison # null
    /\ comparison.simplificationFactor = Finite(200)

\* The results the sequence of the trace has produced so far: one for its
\* MERGE once that has completed, one for its traditional statements once
\* the last of them has completed.
ResultsOfRun ==
    LET type == TypeOfRun
        trad == TraditionalOrder(component, type)
        done == Range(CompletedIn(trace))
    IN (IF MergeOf(component, type) \in done THEN 1 ELSE 0)
         + (IF trad[Len(trad)] \in done THEN 1 ELSE 0)

\* C14: a comparison that is not null comes with exactly two test results,
\* the MERGE result followed by the traditional result of the sequence of
\* the current trace, and is calculateComparison of those two; test results
\* that are shown are those of that sequence; and while a sequence runs the
\* comparison is null until its last traditional statement has completed.
C14_ComparisonOfThisRun ==
    /\ comparison # null =>
          /\ Len(testResults) = 2
          /\ testResults[1].approach = "MERGE"
          /\ testResults[2].approach \in {"INSERT_UPDATE", "TRADITIONAL"}
          /\ comparison = calculateComparison(component, testResults[1], testResults[2])
          /\ ResultsOfRun = 2
    /\ testResults # << >> =>
          /\ Len(testResults) = ResultsOfRun
          /\ \A i \in 1..Len(testResults) :
                testResults[i].operationCount
                   = (IF i = 1 THEN 1 ELSE Len(TraditionalOrder(component, TypeOfRun)))
    /\ (isRunning /\ ResultsOfRun < 2) => comparison = null

C14_Witness ==
    /\ component = AD
    /\ started = MaxRuns
    /\ ended = MaxRuns
    /\ TypeOfRun = "fraud"
    /\ comparison # null
    /\ comparison.simplificationFactor = Finite(200)
    /\ Len(testResults) = 2


(***************************************************************************)
(* The executors and the API server, one exchange at a time                *)
(* (SpecExchange).                                                         *)
(***************************************************************************)
\* The exchange failed in one of the three ways: fetch rejected, a non-2xx
\* response, an error reported by the engine for the statement sent.
ExchangeFailed ==
    \/ io.response.rejected
    \/ ~io.response.ok
    \/ io.transport = "delivered" /\ io.sql /\ io.engine.kind = "error"

\* C15: a rejected fetch, a non-2xx HTTP response and an error reported by
\* the engine each make the executor call throw an Error with a message; the
\* call never returns such an exchange as a result.  This holds for
\* executeFireboltQuery and for executeQuery behind the API server.
C15_FailuresThrow ==
    (io # NoExchange /\ io.out # null /\ ExchangeFailed)
        => (~io.out.returns /\ io.out.message # "")

C15_Witness ==
    /\ io # NoExchange
    /\ component = AD
    /\ io.transport = "delivered" /\ io.sql /\ io.engine.kind = "error"
    /\ io.proxy # null /\ io.proxy.status = 500
    /\ io.out # null /\ ~io.out.returns /\ io.out.message = "error"

(***************************************************************************)
(* The log panel (SpecLog).                                                *)
(***************************************************************************)
\* C16: the log feed is append-only: while a test sequence runs, and after
\* it has failed, every step leaves the lines already in the log in place,
\* whatever the operator does.
C16_AppendOnly == [][(isRunning \/ SequenceFailed) => IsPrefix(logs, logs')]_vars

(***************************************************************************)
(* The status check (SpecStatus).                                          *)
(***************************************************************************)
ProfilesCount == Stmt("SELECT COUNT(*) FROM customer_profiles")
ChangesCount == Stmt("SELECT COUNT(*) FROM customer_changes")
StatusRequests == {ProfilesCount, ChangesCount, Stmt("/api/status")}

C18_RunsToTheEnd ==
    /\ [][(isRunning /\ inflight \subseteq inflight')
             => (isRunning' /\ tasks'["test"] = tasks["test"])]_vars
    /\ [][(isRunning /\ ~isRunning')
             => \/ comparison' # null
                \/ \E i \in 1..Len(logs') : logs'[i].text = "Test failed"]_vars
    /\ isRunning ~> ~isRunning

C18_Witness ==
    /\ started = 1 /\ ended = 1
    /\ ~isRunning
    /\ comparison = null
    /\ failures = 1
    /\ logEdits = 1
    /\ \E i \in 1..Len(logs) : logs[i].text = "Test failed"

(***************************************************************************)
(* Retries (SpecStatus).                                                   *)
(***************************************************************************)
EventsOf(tr, ev) == {i \in 1..Len(tr) : tr[i].ev = ev}

\* The statement that failed at position i of tr is issued again at j.
SentAgain(tr, i, j) ==
    /\ i < j
    /\ tr[i].ev = "fail"
    /\ tr[j].ev = "issue"
    /\ tr[j].stmt = tr[i].stmt

C20_ProxyResponse ==
    (io # NoExchange /\ component = AD /\ io.proxy # null /\ io.sql) =>
        LET engine == io.engine
            body == io.proxy.body
        IN IF engine.kind = "result"
           THEN /\ io.proxy.status = 200
                /\ "success" \in body.keys /\ body.success
                /\ Len(body.data) = Len(engine.data)
                /\ \A r \in 1..Len(engine.data) : \A i \in 1..Len(engine.meta) :
                      body.data[r][engine.meta[i]] = engine.data[r][i]
                /\ body.statistics =
                      [execution_time_ms |-> io.elapsed,
                       rows_read |-> IF engine.statistics.rowsRead \in {absent, 0}
                                     THEN Len(engine.data)
                                     ELSE engine.statistics.rowsRead,
                       bytes_read |-> IF engine.statistics.bytesRead = absent
                                      THEN 0 ELSE engine.statistics.bytesRead]
           ELSE /\ io.proxy.status = 500
                /\ "success" \in body.keys /\ ~body.success
                /\ body.error = engine.message

(***************************************************************************)
(* The database-management operations (SpecManage).                        *)
(***************************************************************************)
\* A database-management operation is in progress.
Managing == tasks["manage"] # IdleTask \/ tasks["load"] # IdleTask

\* The executor calls of the trace before position i that succeeded.
SucceededBefore(tr, i) ==
    {tr[j].stmt : j \in {k \in 1..(i - 1) : tr[k].ev = "ok"}}

IsInsertValues(e) ==
    e.ev = "issue" /\ e.stmt.sql = "INSERT INTO customer_profiles VALUES"

\* C21: Full Reset of CustomerAnalytics issues an INSERT of the initial load
\* only after CREATE FACT TABLE customer_profiles and CREATE FACT TABLE
\* customer_changes have both succeeded in that reset.
C21_LoadsAfterRecreate ==
    (component = CA /\ tasks["manage"].prog = "fullDatabaseReset") =>
        \A i \in DOMAIN trace :
            IsInsertValues(trace[i]) =>
                {CreateTable("customer_profiles"), CreateTable("customer_changes")}
                    \subseteq SucceededBefore(trace, i)

\* C22: Load Initial Data of CustomerAnalytics creates the tables only when
\* they do not exist: loadInitialSampleData sends the first statement of its
\* table creation (DROP TABLE IF EXISTS customer_changes) only when
\* customer_profiles does not exist.
C22_CreatesOnlyWhenMissing ==
    (component = CA /\ tasks["manage"].prog = "loadInitialSampleData") =>
        \A req \in inflight :
            (req.owner = "manage" /\ req.stmt = DropTable("customer_changes")) =>
                "customer_profiles" \notin db.exists

\* The INSERTs of customers the trace holds, and the rows they carry.
InsertsOf(tr) == SelectSeq(tr, IsInsertValues)
RECURSIVE RowsOf(_)
RowsOf(ins) ==
    IF ins = << >> THEN 0
    ELSE (Head(ins).stmt.last - Head(ins).stmt.first + 1) + RowsOf(Tail(ins))

\* C27: loadAdditionalData(n) inserts fresh, contiguous ids: each of its
\* INSERTs carries at most 1000 ids and starts one above the largest
\* customer_id in the table, and once every batch has succeeded (its closing
\* count is in flight) ceil(n / 1000) INSERTs have carried n ids in all.
C27_LoadsFreshIds ==
    \A req \in inflight :
        (component = CA /\ req.owner = "load") =>
            /\ req.stmt.sql = "INSERT INTO customer_profiles VALUES" =>
                  /\ req.stmt.first = MaxCustomerIdOf(db) + 1
                  /\ req.stmt.first <= req.stmt.last
                  /\ req.stmt.last - req.stmt.first + 1 <= batchSize
            /\ req.stmt.sql = "SELECT COUNT(*) total_customers FROM customer_profiles" =>
                  /\ Len(InsertsOf(trace)) = batches(tasks["load"].customerCount)
                  /\ RowsOf(InsertsOf(trace)) = tasks["load"].customerCount

\* The statements whose failure the handlers take as an answer: the probe of
\* loadInitialSampleData and the counts of checkDatabaseStatus.
Probes ==
    {"SELECT 1 FROM customer_profiles", "SELECT COUNT(*) FROM customer_profiles",
     "SELECT COUNT(*) FROM customer_changes"}

\* The error lines the catch blocks of the operations write.
FailureTexts ==
    {"Failed to recreate tables", "Failed to load initial data",
     "Failed to load additional data", "Failed to create tables", "Failed to load data"}

\* No operation is in progress and the busy flags are false.
EndedIdle == ~Managing => ~isLoadingData /\ ~isResettingDatabase

\* Full Reset goes on to its second operation, the initial load, whose first
\* statement is the probe (CustomerAnalytics) or the first batch
\* (AdPerformanceDemo).
StartsLoad(e) ==
    e.ev = "issue" /\ e.stmt \in {Stmt("SELECT 1 FROM customer_profiles"), BatchStmt(0)}

\* The failure of a statement other than those of exempt is the last
\* executor call of its operation, and when it is the last call of the trace
\* nothing is in progress and the log ends with the error of the catch block.
FailureStops(exempt) ==
    \A i \in DOMAIN trace :
        (trace[i].ev = "fail" /\ trace[i].stmt.sql \notin exempt) =>
            IF i = Len(trace)
            THEN /\ ~Managing
                 /\ \A req \in inflight : req.owner \notin {"manage", "load"}
                 /\ logs # << >> /\ logs[Len(logs)].text \in FailureTexts
            ELSE StartsLoad(trace[i + 1])

\* C30 (as amended): every data-load and table-recreation operation ends
\* with its busy flags false, whether its statements succeed or one fails,
\* and the failure of a statement other than the probe of
\* loadInitialSampleData and the counts of the status check stops the
\* remaining statements of the operation and is written to the log.
C30_EndsIdleStopsOnFailure ==
    /\ EndedIdle
    /\ FailureStops(Probes)

\* C30 as stated: the failure of any statement inside the operation stops
\* its remaining statements.
C30_AnyFailureStops ==
    /\ EndedIdle
    /\ FailureStops({})

C30_Witness ==
    /\ component = CA
    /\ LastFailed(trace)
    /\ trace[Len(trace)].stmt = InsertValues(batchSize + 1, 2 * batchSize)
    /\ ~Managing
    /\ ~isLoadingData
    /\ logs[Len(logs)].text = "Failed to load initial data"

(***************************************************************************)
(* The data scale and the seed (SpecSeed).                                 *)
(***************************************************************************)
\* The customers the spec gives for scale 1x: 1,000 in CustomerAnalytics,
\* 5,000 in its earlier version.
UnitRows(version) == IF version = CA THEN 1000 ELSE 5000

\* C23: for scale Nx setupTestData targets unit rows * N customers and stages
\* floor(0.3 * unit rows * N) change rows, so of two scales the strictly
\* larger one stages strictly more change rows.
C23_ScaleDeterminesSeed ==
    calc.out # null =>
        /\ \A x \in {calc.out.a, calc.out.b} :
              /\ x.baseRows = UnitRows(calc.version) * x.multiplier
              /\ x.staged = (3 * UnitRows(calc.version) * x.multiplier) \div 10
        /\ calc.out.a.multiplier < calc.out.b.multiplier =>
              calc.out.a.staged < calc.out.b.staged

(***************************************************************************)
(* The comparison of a completed run (SpecTimes).                          *)
(***************************************************************************)
\* C26: timeImprovement of the comparison of a completed run is a finite
\* number, also when the traditional test's executionTime is 0.
C26_FiniteTimeImprovement ==
    comparison # null => comparison.timeImprovement.kind = "finite"

(***************************************************************************)
(* The proxy's connection to Firebolt (SpecProxy).                         *)
(***************************************************************************)
\* C25: the proxy establishes at most one Firebolt connection per process,
\* also when requests arrive before the first connect has completed.
C25_OneConnection ==
    server # NoProxy => Cardinality(server.opened) <= 1

(***************************************************************************)
(* The results of AdPerformanceDemo and the Test Type select.              *)
(***************************************************************************)
\* The test type the results heading, the operation count and the SQL
\* comparison are rendered for: testType === 'attribution' ? ... : ...
DisplayedType == testType

\* C29: whenever AdPerformanceDemo displays a comparison, the heading, the
\* operation count and the SQL comparison shown with it are those of the
\* test type of the run that produced the comparison.
C29_ResultsOfTheirRun ==
    (component = AD /\ comparison # null) => DisplayedType = TypeOfRun

(***************************************************************************)
(* The connection test of the setup page (SpecSetup).                      *)
(***************************************************************************)
\* The log of a connection test that passed, and the steps after which a
\* test can fail: at the health answer, at the missing credentials, at the
\* connect answer, at the query answer.
PassedTexts ==
    << "Initializing connection test to Firebolt Cloud", "Checking API server status",
       "API server is running", "Account", "Database", "Engine",
       "Credentials detected", "Testing database connection",
       "Connected to engine", "Engine URL", "Executing test query",
       "Test query executed successfully", "Execution time",
       "Connection test completed successfully" >>
FailurePoints == {2, 6, 8, 11}
SetupTexts ==
    [i \in DOMAIN setup.logs |->
        IF setup.logs[i].text = "Execution time: N/A" THEN "Execution time"
        ELSE setup.logs[i].text]

\* C28: connectionStatus is 'success' only when the health check, the
\* connect and the test query of this test have passed, in this order; a
\* failure skips the remaining steps and gives 'error'; isConnecting is
\* false once the test has ended; and while a test is in progress
\* connectionStatus does not show the 'success' of an earlier test.
C28_StatusOfThisTest ==
    setup # NoSetup =>
        /\ setup.isConnecting <=> setup.pc # "idle"
        /\ setup.isConnecting => setup.connectionStatus # "success"
        /\ (~setup.isConnecting /\ setup.tests > 0) =>
              \/ /\ setup.connectionStatus = "success"
                 /\ SetupTexts = PassedTexts
              \/ /\ setup.connectionStatus = "error"
                 /\ \E k \in FailurePoints :
                       SetupTexts = SubSeq(PassedTexts, 1, k) \o << "Connection failed" >>

(***************************************************************************)
(* Test sequences and database management (SpecOverlap).                   *)
(***************************************************************************)
\* C24: a test sequence and a database-management operation never overlap:
\* while isRunning is true no table re-creation and no data load started
\* from the management buttons is in progress.
C24_NoOverlap == isRunning => ~Managing
====
